---- MODULE Spec2Model ----
(***************************************************************************)
(* A model of thermopy's property evaluators: the IAPWS-IF97 water/steam   *)
(* evaluator (thermopy/iapws.py) with the unit value types it uses         *)
(* (thermopy/units.py), and the NASA-9 compound evaluator                   *)
(* (thermopy/nasa9polynomials.py).                                          *)
(*                                                                         *)
(* Numbers.  Python floats are modelled as decimal fixed-point numbers     *)
(* <<i, n>> standing for i + n * 10^-9, with i an integer and              *)
(* 0 <= n < 10^9 (so -0.000001 is <<-1, 999999000>>).  Nine decimals are   *)
(* enough to tell apart every threshold the code compares against          *)
(* (611.213 Pa is 0.000611213 once converted to MPa).  The empty tuple     *)
(* << >> stands for None / an attribute that was never assigned.           *)
(***************************************************************************)
EXTENDS Integers, Sequences, FiniteSets, TLC

VARIABLES
    water,      \* the Water object last constructed (NoWater: none exists)
    last,       \* the call made last and what it gave back to its caller
    compound,   \* the Compound under evaluation (nasa9 or burcat)
    got,        \* the compound or reaction call made last and what it gave back
    reaction,   \* the nasa9 Reaction last constructed
    threads     \* the calls in progress on the Reaction, one per thread

vars == <<water, last, compound, got, reaction, threads>>

-----------------------------------------------------------------------------
(* Fixed-point numbers *)

Giga == 10^9

None == << >>

Num(i, n) == <<i, n>>

Lt(a, b) == a[1] < b[1] \/ (a[1] = b[1] /\ a[2] < b[2])
Gt(a, b) == Lt(b, a)
Le(a, b) == ~Lt(b, a)
Ge(a, b) == ~Lt(a, b)

-----------------------------------------------------------------------------
(* thermopy/constants.py and thermopy/units.py *)

mega == 1000000

\* ideal_gas_constant[0] and ideal_gas_constant_massic_basis[0]
ideal_gas_constant == Num(8, 314472000)
ideal_gas_constant_massic_basis == Num(0, 461526000)

\* Temperature(data), Pressure(data): float subclasses, the value is data
Temperature(data) == data
Pressure(data) == data

\* Pressure.unit('MPa'): the value times constants.mega
unit_MPa(x) == Num(x[1] * mega + (x[2] \div 1000), (x[2] % 1000) * mega)

\* Pressure.MPa: the value divided by constants.mega (digits below 10^-9 drop)
MPa(x) == Num(x[1] \div mega, (x[1] % mega) * 1000 + (x[2] \div mega))

-----------------------------------------------------------------------------
(* The sampled inputs.  Pressures are in Pa and temperatures in K, as the  *)
(* callers pass them; each set holds every threshold of the code, a value  *)
(* on either side of it, and the points of thermopy's own tests.           *)

PSamples ==
    { Num(-1, 0), Num(0, 0), Num(100, 0),
      Num(611, 213000000),           \* lower bound of temperature_saturation
      Num(611, 657000000),           \* Water.pt
      Num(3500, 0), Num(100000, 0), Num(3000000, 0), Num(20000000, 0),
      Num(22064000, 0),              \* critical pressure
      Num(30000000, 0),
      Num(30477196, 618000000),      \* the 2-3 boundary pressure at 700 K
      Num(40000000, 0), Num(50000000, 0), Num(80000000, 0),
      Num(100000000, 0), Num(200000000, 0) }

TSamples ==
    { Num(100, 0), Num(273, 150000000),
      Num(273, 160000000),           \* Water.Tt
      Num(300, 0),
      Num(372, 755918611),           \* the saturation temperature at 0.1 MPa
      Num(373, 150000000), Num(500, 0),
      Num(623, 150000000), Num(623, 160000000),
      Num(647, 96000000),            \* Water.Tc
      Num(700, 0), Num(1073, 150000000), Num(1073, 160000000),
      Num(1500, 0), Num(2273, 150000000), Num(2273, 160000000) }

\* values passed as massic_basis, by their Python spelling
MassicArgs == {"True", "False", "None", "1", "0"}

-----------------------------------------------------------------------------
(* thermopy/iapws.py: class Water *)

NoWater == [p |-> None, T |-> None, R |-> None, exists |-> FALSE]

\* what a call gives back to its caller: kind is "value" for a returned
\* number, "None", "minus1" (the literal -1), "inf", or the name of the
\* exception raised; val is the number where the model computes it; region is
\* the region the call was dispatched on (0: none); eq and terms name the
\* basic equation and the derivatives a returned property was computed from,
\* and at the state point <<p, T>> the equation was evaluated at, followed by
\* the temperature that scales the result where one does (None: none).
Out(kind, val, region, eq, terms, at) ==
    [kind |-> kind, val |-> val, region |-> region, eq |-> eq, terms |-> terms,
     at |-> at]

Raise(exc) == Out(exc, None, 0, "", {}, None)
Return(val) == Out("value", val, 0, "", {}, None)

Errors == {"ValueError", "Exception", "NameError", "ZeroDivisionError",
           "AttributeError", "TypeError"}

\* a constructor whose high-temperature pressure limit starts at 1073.15 K
\* instead of above it
Water_init_CutoutInclusive(p, T, massic_basis) ==
    IF Lt(T, Num(273, 150000000)) \/ Gt(T, Num(2273, 150000000))
       \/ Gt(p, Num(100000000, 0)) \/ Lt(p, Num(0, 0))
       \/ (Ge(T, Num(1073, 150000000)) /\ Gt(p, Num(50000000, 0)))
    THEN [raised |-> "ValueError", self |-> NoWater]
    ELSE [raised |-> "",
          self |-> [p |-> p, T |-> T,
                    R |-> IF massic_basis = "True"
                          THEN ideal_gas_constant_massic_basis
                          ELSE IF massic_basis = "False"
                          THEN ideal_gas_constant
                          ELSE None,
                    exists |-> TRUE]]

\* a constructor that tests massic_basis for truth instead of identity
Water_init_TruthyBasis(p, T, massic_basis) ==
    IF Lt(T, Num(273, 150000000)) \/ Gt(T, Num(2273, 150000000))
       \/ Gt(p, Num(100000000, 0)) \/ Lt(p, Num(0, 0))
       \/ (Gt(T, Num(1073, 150000000)) /\ Gt(p, Num(50000000, 0)))
    THEN [raised |-> "ValueError", self |-> NoWater]
    ELSE [raised |-> "",
          self |-> [p |-> p, T |-> T,
                    R |-> IF massic_basis \in {"True", "1"}
                          THEN ideal_gas_constant_massic_basis
                          ELSE ideal_gas_constant,
                    exists |-> TRUE]]

\* Water.__init__: the object, or the exception raised; `massic_basis is True`
\* and `massic_basis is False` hold for the two bool objects only
Water_init(p, T, massic_basis) ==
    LET self_p == Pressure(p)
        self_T == Temperature(T)
    IN  IF Lt(self_T, Temperature(Num(273, 150000000)))
           \/ Gt(self_T, Temperature(Num(2273, 150000000)))
        THEN [raised |-> "ValueError", self |-> NoWater]
        ELSE IF Gt(self_p, unit_MPa(Pressure(Num(100, 0)))) \/ Lt(self_p, Num(0, 0))
        THEN [raised |-> "ValueError", self |-> NoWater]
        ELSE IF Gt(self_T, Num(1073, 150000000))
                /\ Gt(self_p, unit_MPa(Pressure(Num(50, 0))))
        THEN [raised |-> "ValueError", self |-> NoWater]
        ELSE [raised |-> "",
              self |-> [p |-> self_p, T |-> self_T,
                        R |-> IF massic_basis = "True"
                              THEN ideal_gas_constant_massic_basis
                              ELSE IF massic_basis = "False"
                              THEN ideal_gas_constant
                              ELSE None,
                        exists |-> TRUE]]

\* class attributes
Tc == Num(647, 96000000)
pc == unit_MPa(Pressure(Num(22, 64000000)))
rhoc == 322
Tt == Num(273, 160000000)
pt == Num(611, 657000000)

\* iapws.py 71-91: the backward equation T_sat(beta), beta = p ** 0.25 with p
\* the pressure in MPa.  The closed form takes fractional powers; it is
\* tabulated here at the sampled pressures and at the pressures
\* pressure_saturation returns, each entry the value of the source expression
\* in double arithmetic, cut to nine decimals.
TsatEquation ==
    Num(0, 611213) :> Num(273, 150007261) @@
    Num(0, 611657) :> Num(273, 159999999) @@
    Num(0, 3500000) :> Num(299, 823192672) @@
    Num(0, 3536589) :> Num(299, 999998013) @@
    Num(0, 99999999) :> Num(372, 755918331) @@
    Num(0, 100000000) :> Num(372, 755918611) @@
    Num(0, 101417977) :> Num(373, 149999745) @@
    Num(2, 638897756) :> Num(499, 999999994) @@
    Num(3, 0) :> Num(507, 8445006) @@
    Num(16, 529164252) :> Num(623, 149999997) @@
    Num(16, 531193296) :> Num(623, 159999998) @@
    Num(20, 0) :> Num(638, 895911545) @@
    Num(22, 64000000) :> Num(647, 95999998) @@
    Num(30, 0) :> Num(650, 164862431) @@
    Num(30, 477196618) :> Num(650, 165421786) @@
    Num(40, 0) :> Num(650, 169919251) @@
    Num(50, 0) :> Num(650, 170895589) @@
    Num(80, 0) :> Num(650, 169755089) @@
    Num(100, 0) :> Num(650, 167322791) @@
    Num(200, 0) :> Num(638, 579899606)

\* iapws.py 103-119: the saturation-pressure equation, in MPa, tabulated at
\* the sampled temperatures in the same way.
PsatEquation ==
    Num(273, 150000000) :> Num(0, 611212) @@
    Num(273, 160000000) :> Num(0, 611657) @@
    Num(300, 0) :> Num(0, 3536589) @@
    Num(372, 755918611) :> Num(0, 99999999) @@
    Num(373, 150000000) :> Num(0, 101417977) @@
    Num(500, 0) :> Num(2, 638897756) @@
    Num(623, 150000000) :> Num(16, 529164252) @@
    Num(623, 160000000) :> Num(16, 531193296) @@
    Num(647, 96000000) :> Num(22, 64000000)

\* iapws.py 128-136: ni[0] + ni[1] * theta + ni[2] * theta ** 2 with
\* ni = (348.05185628969, -1.1671859879975, 0.0010192970039326), in MPa,
\* tabulated at the sampled temperatures in the same way.
B23Equation ==
    Num(273, 150000000) :> Num(105, 285693433) @@
    Num(273, 160000000) :> Num(105, 279590094) @@
    Num(300, 0) :> Num(89, 632790244) @@
    Num(372, 755918611) :> Num(54, 604606323) @@
    Num(373, 150000000) :> Num(54, 444259997) @@
    Num(500, 0) :> Num(19, 283113274) @@
    Num(623, 150000000) :> Num(16, 529164252) @@
    Num(623, 160000000) :> Num(16, 530195993) @@
    Num(630, 0) :> Num(17, 283664712) @@
    Num(640, 0) :> Num(18, 556876782) @@
    Num(647, 96000000) :> Num(19, 584002264) @@
    Num(700, 0) :> Num(30, 477196618) @@
    Num(1073, 150000000) :> Num(269, 360548150) @@
    Num(1073, 160000000) :> Num(269, 370753564) @@
    Num(1500, 0) :> Num(890, 691133141) @@
    Num(2273, 150000000) :> Num(2961, 785639665)

\* Water.temperature_saturation(p=None)
temperature_saturation(self, p) ==
    LET pM == IF p = None THEN MPa(self.p) ELSE MPa(Pressure(p))
    IN  IF Lt(pM, MPa(Pressure(Num(611, 213000000)))) \/ Gt(pM, pc)
        THEN Raise("ValueError")
        ELSE Return(Temperature(TsatEquation[pM]))

\* a saturation pressure that leaves the critical temperature out of its domain
pressure_saturation_CriticalExcluded(self, T) ==
    LET Tk == IF T = None THEN self.T ELSE T
    IN  IF Lt(Tk, Num(273, 150000000)) \/ Ge(Tk, Tc)
        THEN Raise("ValueError")
        ELSE Return(unit_MPa(PsatEquation[Tk]))

\* a saturation pressure handed back in MPa, as the equation yields it
pressure_saturation_InMPa(self, T) ==
    LET Tk == IF T = None THEN self.T ELSE T
    IN  IF Lt(Tk, Num(273, 150000000)) \/ Gt(Tk, Tc)
        THEN Raise("ValueError")
        ELSE Return(PsatEquation[Tk])

\* Water.pressure_saturation(T=None)
pressure_saturation(self, T) ==
    LET Tk == IF T = None THEN self.T ELSE Temperature(T)
    IN  IF Lt(Tk, Num(273, 150000000)) \/ Gt(Tk, Tc)
        THEN Raise("ValueError")
        ELSE Return(unit_MPa(Pressure(PsatEquation[Tk])))

\* a classification that puts the saturation line, T = T_sat(p), in region 1
is_in_region_SaturationLineLiquid(self) ==
    LET Tsat == temperature_saturation(self, self.p)
    IN  IF self.T = Tt /\ self.p = pt
        THEN Out("value", None, 1, "", {}, None)
        ELSE IF Ge(self.T, Num(273, 150000000)) /\ Le(self.T, Num(623, 150000000))
        THEN IF Tsat.kind # "value"
             THEN Tsat
             ELSE IF Le(self.T, Tsat.val)
                  THEN Out("value", None, 1, "", {}, None)
                  ELSE Out("value", None, 2, "", {}, None)
        ELSE IF Gt(self.T, Num(623, 150000000)) /\ Le(self.T, Num(1073, 150000000))
        THEN IF Gt(self.p, unit_MPa(B23Equation[self.T]))
             THEN Out("value", None, 3, "", {}, None)
             ELSE Out("value", None, 2, "", {}, None)
        ELSE IF Ge(self.T, Num(1073, 150000000)) /\ Le(self.T, Num(2273, 150000000))
        THEN Out("value", None, 5, "", {}, None)
        ELSE Raise("Exception")

\* a classification that puts the 2-3 boundary, p = p23(T), in region 3
is_in_region_BoundaryDense(self) ==
    LET Tsat == temperature_saturation(self, self.p)
    IN  IF self.T = Tt /\ self.p = pt
        THEN Out("value", None, 1, "", {}, None)
        ELSE IF Ge(self.T, Num(273, 150000000)) /\ Le(self.T, Num(623, 150000000))
        THEN IF Tsat.kind # "value"
             THEN Tsat
             ELSE IF Lt(self.T, Tsat.val)
                  THEN Out("value", None, 1, "", {}, None)
                  ELSE Out("value", None, 2, "", {}, None)
        ELSE IF Gt(self.T, Num(623, 150000000)) /\ Le(self.T, Num(1073, 150000000))
        THEN IF Ge(self.p, unit_MPa(B23Equation[self.T]))
             THEN Out("value", None, 3, "", {}, None)
             ELSE Out("value", None, 2, "", {}, None)
        ELSE IF Ge(self.T, Num(1073, 150000000)) /\ Le(self.T, Num(2273, 150000000))
        THEN Out("value", None, 5, "", {}, None)
        ELSE Raise("Exception")

\* a classification whose middle band ends below 1073.15 K, leaving that
\* temperature to the high band
is_in_region_HighBandFirst(self) ==
    LET Tsat == temperature_saturation(self, self.p)
    IN  IF self.T = Tt /\ self.p = pt
        THEN Out("value", None, 1, "", {}, None)
        ELSE IF Ge(self.T, Num(273, 150000000)) /\ Le(self.T, Num(623, 150000000))
        THEN IF Tsat.kind # "value"
             THEN Tsat
             ELSE IF Lt(self.T, Tsat.val)
                  THEN Out("value", None, 1, "", {}, None)
                  ELSE Out("value", None, 2, "", {}, None)
        ELSE IF Gt(self.T, Num(623, 150000000)) /\ Lt(self.T, Num(1073, 150000000))
        THEN IF Gt(self.p, unit_MPa(B23Equation[self.T]))
             THEN Out("value", None, 3, "", {}, None)
             ELSE Out("value", None, 2, "", {}, None)
        ELSE IF Ge(self.T, Num(1073, 150000000)) /\ Le(self.T, Num(2273, 150000000))
        THEN Out("value", None, 5, "", {}, None)
        ELSE Raise("Exception")

\* Water._is_in_region()
is_in_region(self) ==
    LET theta == self.T
        pressure23 == unit_MPa(Pressure(B23Equation[theta]))
        Tsat == temperature_saturation(self, self.p)
    IN  IF self.T = Tt /\ self.p = pt
        THEN Out("value", None, 1, "", {}, None)
        ELSE IF Ge(self.T, Temperature(Num(273, 150000000)))
                /\ Le(self.T, Temperature(Num(623, 150000000)))
        THEN IF Tsat.kind # "value"
             THEN Tsat
             ELSE IF Lt(self.T, Tsat.val)
                  THEN Out("value", None, 1, "", {}, None)
                  ELSE Out("value", None, 2, "", {}, None)
        ELSE IF Gt(self.T, Temperature(Num(623, 150000000)))
                /\ Le(self.T, Temperature(Num(1073, 150000000)))
        THEN IF Gt(self.p, pressure23)
             THEN Out("value", None, 3, "", {}, None)
             ELSE Out("value", None, 2, "", {}, None)
        ELSE IF Ge(self.T, Temperature(Num(1073, 150000000)))
                /\ Le(self.T, Temperature(Num(2273, 150000000)))
        THEN Out("value", None, 5, "", {}, None)
        ELSE Raise("Exception")

\* the outcome of an arithmetic expression from the outcomes of its operands,
\* taken left to right as Python evaluates them: the first exception raised
\* leaves the expression (None as an operand raises TypeError); otherwise an
\* infinite operand makes the result infinite
Combine(kinds) ==
    LET bad == {i \in 1..Len(kinds) : kinds[i] \in Errors \cup {"None"}}
        first == CHOOSE i \in bad : \A j \in bad : i <= j
    IN  IF bad # {}
        THEN IF kinds[first] = "None" THEN "TypeError" ELSE kinds[first]
        ELSE IF \E i \in 1..Len(kinds) : kinds[i] = "inf" THEN "inf"
        ELSE "value"

\* reading self.R, which __init__ assigns only for massic_basis True or False
ReadR(self) == IF self.R = None THEN "AttributeError" ELSE "value"

\* Water._basic_equation1(value)
basic_equation1(self, value) ==
    IF value \in {"gamma", "gamma_tau", "gamma_tau_tau", "gamma_pi",
                  "gamma_pi_pi", "gamma_pi_tau", "gamma_tau_pi"}
    THEN "value"
    ELSE "Exception"

\* Water._basic_equation2(value); pi = self.p / Pressure(1).unit('MPa')
basic_equation2(self, value) ==
    LET pi_is_0 == (self.p = Num(0, 0))
        gamma_0 == IF pi_is_0 THEN "inf" ELSE "value"      \* log(pi) + ...
    IN  CASE value = "gamma" -> Combine(<<gamma_0, "value">>)
          [] value = "gamma_0" -> gamma_0
          [] value = "gamma_r" -> "value"
          [] value = "gamma_0_pi" ->
                 IF pi_is_0 THEN "ZeroDivisionError" ELSE "value"   \* 1/pi
          [] value = "gamme_0_pi_pi" ->
                 IF pi_is_0 THEN "ZeroDivisionError" ELSE "value"
          [] value \in {"gamma_0_tau", "gamma_0_tau_tau", "gamma_0_pi_tau",
                        "gamma_0_tau_pi", "gamma_r_pi", "gamma_r_tau",
                        "gamma_r_tau_tau"} -> "value"
          [] value = "gamma_r_pi_pi" -> "TypeError"    \* an array is called
          [] OTHER -> "None"

\* iapws.py 400-409: the scan for[i in 1..579] of obj(i) * obj(i + 1) < 0 at
\* the sampled region-3 states: the i of the first strict sign change, 0 when
\* the scan ends without one.  obj is the region-3 pressure residual; each
\* entry is the scan of the source expression in double arithmetic.
FirstSignChange ==
    <<Num(18000000, 0), Num(630, 0), ideal_gas_constant>> :> 3 @@
    <<Num(18000000, 0), Num(630, 0), ideal_gas_constant_massic_basis>> :> 133 @@
    <<Num(20000000, 0), Num(640, 0), ideal_gas_constant>> :> 3 @@
    <<Num(20000000, 0), Num(640, 0), ideal_gas_constant_massic_basis>> :> 160 @@
    <<Num(20000000, 0), Num(623, 160000000), ideal_gas_constant>> :> 3 @@
    <<Num(20000000, 0), Num(623, 160000000), ideal_gas_constant_massic_basis>> :> 0 @@
    <<Num(22064000, 0), Num(623, 160000000), ideal_gas_constant>> :> 4 @@
    <<Num(22064000, 0), Num(623, 160000000), ideal_gas_constant_massic_basis>> :> 0 @@
    <<Num(30000000, 0), Num(623, 160000000), ideal_gas_constant>> :> 5 @@
    <<Num(30000000, 0), Num(623, 160000000), ideal_gas_constant_massic_basis>> :> 0 @@
    <<Num(30477196, 618000000), Num(623, 160000000), ideal_gas_constant>> :> 5 @@
    <<Num(30477196, 618000000), Num(623, 160000000), ideal_gas_constant_massic_basis>> :> 0 @@
    <<Num(40000000, 0), Num(623, 160000000), ideal_gas_constant>> :> 7 @@
    <<Num(40000000, 0), Num(623, 160000000), ideal_gas_constant_massic_basis>> :> 0 @@
    <<Num(50000000, 0), Num(623, 160000000), ideal_gas_constant>> :> 9 @@
    <<Num(50000000, 0), Num(623, 160000000), ideal_gas_constant_massic_basis>> :> 0 @@
    <<Num(80000000, 0), Num(623, 160000000), ideal_gas_constant>> :> 16 @@
    <<Num(80000000, 0), Num(623, 160000000), ideal_gas_constant_massic_basis>> :> 0 @@
    <<Num(100000000, 0), Num(623, 160000000), ideal_gas_constant>> :> 20 @@
    <<Num(100000000, 0), Num(623, 160000000), ideal_gas_constant_massic_basis>> :> 0 @@
    <<Num(20000000, 0), Num(647, 96000000), ideal_gas_constant>> :> 3 @@
    <<Num(20000000, 0), Num(647, 96000000), ideal_gas_constant_massic_basis>> :> 132 @@
    <<Num(22064000, 0), Num(647, 96000000), ideal_gas_constant>> :> 3 @@
    <<Num(22064000, 0), Num(647, 96000000), ideal_gas_constant_massic_basis>> :> 322 @@
    <<Num(30000000, 0), Num(647, 96000000), ideal_gas_constant>> :> 5 @@
    <<Num(30000000, 0), Num(647, 96000000), ideal_gas_constant_massic_basis>> :> 562 @@
    <<Num(30477196, 618000000), Num(647, 96000000), ideal_gas_constant>> :> 5 @@
    <<Num(30477196, 618000000), Num(647, 96000000), ideal_gas_constant_massic_basis>> :> 565 @@
    <<Num(40000000, 0), Num(647, 96000000), ideal_gas_constant>> :> 7 @@
    <<Num(40000000, 0), Num(647, 96000000), ideal_gas_constant_massic_basis>> :> 0 @@
    <<Num(50000000, 0), Num(647, 96000000), ideal_gas_constant>> :> 9 @@
    <<Num(50000000, 0), Num(647, 96000000), ideal_gas_constant_massic_basis>> :> 0 @@
    <<Num(80000000, 0), Num(647, 96000000), ideal_gas_constant>> :> 15 @@
    <<Num(80000000, 0), Num(647, 96000000), ideal_gas_constant_massic_basis>> :> 0 @@
    <<Num(100000000, 0), Num(647, 96000000), ideal_gas_constant>> :> 19 @@
    <<Num(100000000, 0), Num(647, 96000000), ideal_gas_constant_massic_basis>> :> 0 @@
    <<Num(40000000, 0), Num(700, 0), ideal_gas_constant>> :> 6 @@
    <<Num(40000000, 0), Num(700, 0), ideal_gas_constant_massic_basis>> :> 383 @@
    <<Num(50000000, 0), Num(700, 0), ideal_gas_constant>> :> 8 @@
    <<Num(50000000, 0), Num(700, 0), ideal_gas_constant_massic_basis>> :> 491 @@
    <<Num(80000000, 0), Num(700, 0), ideal_gas_constant>> :> 13 @@
    <<Num(80000000, 0), Num(700, 0), ideal_gas_constant_massic_basis>> :> 0 @@
    <<Num(100000000, 0), Num(700, 0), ideal_gas_constant>> :> 17 @@
    <<Num(100000000, 0), Num(700, 0), ideal_gas_constant_massic_basis>> :> 0

\* Water._basic_equation3(value): obj reads self.R; without a sign change
\* bisect is called on [579, 580] and raises ValueError
basic_equation3(self, value) ==
    IF self.R = None THEN "AttributeError"
    ELSE IF FirstSignChange[<<self.p, self.T, self.R>>] = 0 THEN "ValueError"
    ELSE IF value \in {"PHI", "PHI_delta", "PHI_delta_delta", "PHI_tau",
                       "PHI_tau_tau", "PHI_delta_tau", "PHI_tau_delta"}
    THEN "value"
    ELSE "None"

\* Water._basic_equation5(value); pi = self.p / Pressure(1).unit('MPa')
basic_equation5(self, value) ==
    LET pi_is_0 == (self.p = Num(0, 0))
        gamma_0 == IF pi_is_0 THEN "inf" ELSE "value"
    IN  CASE value = "gamma" -> Combine(<<gamma_0, "value">>)
          [] value = "gamma_0" -> gamma_0
          [] value \in {"gamma_0_pi", "gamma_0_pi_pi"} ->
                 IF pi_is_0 THEN "ZeroDivisionError" ELSE "value"
          [] value = "gamma_0_tau_tau" -> "None"       \* no return statement
          [] OTHER -> "value"

\* a property computed in `region` from basic equation `eq`: the derivatives
\* `terms`, whose outcomes with those of the other operands are `kinds`, at
\* the state point `at`
Computed(region, eq, terms, kinds, at) ==
    LET k == Combine(kinds)
    IN  IF k \in Errors THEN [Raise(k) EXCEPT !.region = region]
        ELSE Out(k, None, region, eq, terms, at)

Literal(kind, region) == Out(kind, None, region, "", {}, None)

\* the local T of a property method: self.T unless an argument is passed
LocalT(self, T) == IF T = None THEN self.T ELSE Temperature(T)

\* Water.gibbs_energy(p=None, T=None)
gibbs_energy(self, p, T) ==
    LET r == is_in_region(self)
    IN  IF r.kind # "value" THEN r
        ELSE IF r.region = 1
        THEN Computed(1, "basic_equation1", {"gamma"},
                 <<basic_equation1(self, "gamma"), ReadR(self)>>,
                 <<self.p, self.T, LocalT(self, T)>>)
        ELSE IF r.region = 2
        THEN Computed(2, "basic_equation2", {"gamma"},
                 <<basic_equation2(self, "gamma"), ReadR(self)>>,
                 <<self.p, self.T, LocalT(self, T)>>)
        ELSE Literal("None", r.region)

\* Water.specific_volume(p=None, T=None)
specific_volume(self, p, T) ==
    LET r == is_in_region(self)
    IN  IF r.kind # "value" THEN r
        ELSE IF r.region = 1
        THEN Computed(1, "basic_equation1", {"gamma_pi"},
                 <<basic_equation1(self, "gamma_pi"), ReadR(self)>>,
                 <<self.p, self.T, self.T>>)
        ELSE IF r.region = 2
        THEN Computed(2, "basic_equation2", {"gamma_0_pi", "gamma_r_pi"},
                 <<basic_equation2(self, "gamma_0_pi"),
                   basic_equation2(self, "gamma_r_pi"), ReadR(self)>>,
                 <<self.p, self.T, self.T>>)
        ELSE IF r.region = 3
        THEN Literal("None", 3)
        ELSE Literal("minus1", r.region)

\* Water.internal_energy(p=None, T=None)
internal_energy(self, p, T) ==
    LET r == is_in_region(self)
    IN  IF r.kind # "value" THEN r
        ELSE IF r.region = 1
        THEN Computed(1, "basic_equation1", {"gamma_tau", "gamma_pi"},
                 <<basic_equation1(self, "gamma_tau"),
                   basic_equation1(self, "gamma_pi"), ReadR(self)>>,
                 <<self.p, self.T, self.T>>)
        ELSE IF r.region = 2
        THEN Computed(2, "basic_equation2",
                 {"gamma_0_tau", "gamma_r_tau", "gamma_0_pi", "gamma_r_pi"},
                 <<basic_equation2(self, "gamma_0_tau"),
                   basic_equation2(self, "gamma_r_tau"),
                   basic_equation2(self, "gamma_0_pi"),
                   basic_equation2(self, "gamma_r_pi"), ReadR(self)>>,
                 <<self.p, self.T, self.T>>)
        ELSE Literal("minus1", r.region)

\* Water.entropy(p=None, T=None)
entropy(self, p, T) ==
    LET r == is_in_region(self)
    IN  IF r.kind # "value" THEN r
        ELSE IF r.region = 1
        THEN Computed(1, "basic_equation1", {"gamma_tau", "gamma"},
                 <<basic_equation1(self, "gamma_tau"),
                   basic_equation1(self, "gamma"), ReadR(self)>>,
                 <<self.p, self.T, None>>)
        ELSE IF r.region = 2
        THEN Computed(2, "basic_equation2",
                 {"gamma_0_tau", "gamma_r_tau", "gamma_0", "gamma_r"},
                 <<basic_equation2(self, "gamma_0_tau"),
                   basic_equation2(self, "gamma_r_tau"),
                   basic_equation2(self, "gamma_0"),
                   basic_equation2(self, "gamma_r"), ReadR(self)>>,
                 <<self.p, self.T, None>>)
        ELSE Literal("minus1", r.region)

\* Water.enthalpy(p=None, T=None)
enthalpy(self, p, T) ==
    LET r == is_in_region(self)
    IN  IF r.kind # "value" THEN r
        ELSE IF r.region = 1
        THEN Computed(1, "basic_equation1", {"gamma_tau"},
                 <<basic_equation1(self, "gamma_tau"), ReadR(self)>>,
                 <<self.p, self.T, None>>)
        ELSE IF r.region = 2
        THEN Computed(2, "basic_equation2", {"gamma_0_tau", "gamma_r_tau"},
                 <<ReadR(self), basic_equation2(self, "gamma_0_tau"),
                   basic_equation2(self, "gamma_r_tau")>>,
                 <<self.p, self.T, None>>)
        ELSE IF r.region = 3
        THEN Computed(3, "basic_equation3", {"PHI_delta", "PHI_tau"},
                 <<basic_equation3(self, "PHI_delta"),
                   basic_equation3(self, "PHI_tau"), ReadR(self)>>,
                 <<self.p, self.T, self.T>>)
        ELSE IF r.region = 4
        THEN Literal("None", 4)
        ELSE IF r.region = 5
        THEN Computed(5, "basic_equation5", {"gamma_0_tau", "gamma_r_tau"},
                 <<basic_equation5(self, "gamma_0_tau"),
                   basic_equation5(self, "gamma_r_tau"), ReadR(self)>>,
                 <<self.p, self.T, self.T>>)
        ELSE Literal("None", r.region)

\* Water.heat_capacity(p=None, T=None)
heat_capacity(self, p, T) ==
    LET r == is_in_region(self)
    IN  IF r.kind # "value" THEN r
        ELSE IF r.region = 1
        THEN Computed(1, "basic_equation1", {"gamma_tau_tau"},
                 <<ReadR(self), basic_equation1(self, "gamma_tau_tau")>>,
                 <<self.p, self.T, LocalT(self, T)>>)
        ELSE IF r.region = 3
        THEN [Raise("NameError") EXCEPT !.region = 3]   \* delta = rho / ...
        ELSE Literal("minus1", r.region)

\* Water.heat_capacity_constant_v(p=None, T=None)
heat_capacity_constant_v(self, p, T) ==
    LET r == is_in_region(self)
    IN  IF r.kind # "value" THEN r
        ELSE IF r.region = 1
        THEN Computed(1, "basic_equation1",
                 {"gamma_tau_tau", "gamma_pi", "gamma_pi_tau", "gamma_pi_pi"},
                 <<basic_equation1(self, "gamma_tau_tau"),
                   basic_equation1(self, "gamma_pi"),
                   basic_equation1(self, "gamma_pi_tau"),
                   basic_equation1(self, "gamma_pi_pi"), ReadR(self)>>,
                 <<self.p, self.T, None>>)
        ELSE Literal("minus1", r.region)

\* Water.speed_of_sound(p=None, T=None)
speed_of_sound(self, p, T) ==
    LET r == is_in_region(self)
    IN  IF r.kind # "value" THEN r
        ELSE IF r.region = 1
        THEN Computed(1, "basic_equation1",
                 {"gamma_pi", "gamma_tau_pi", "gamma_tau_tau", "gamma_pi_pi"},
                 <<basic_equation1(self, "gamma_pi"),
                   basic_equation1(self, "gamma_tau_pi"),
                   basic_equation1(self, "gamma_tau_tau"),
                   basic_equation1(self, "gamma_pi_pi"), ReadR(self)>>,
                 <<self.p, self.T, self.T>>)
        ELSE Literal("minus1", r.region)

-----------------------------------------------------------------------------
(* The water evaluator as a state machine: a caller constructs Water       *)
(* objects and calls their methods; `last` records each call.              *)

\* the explicit (p, T) arguments a property method is called with
ArgPairs == { <<None, None>>, <<Num(3000000, 0), Num(500, 0)>> }

\* the explicit arguments the saturation functions are called with
PArgs == { None, Num(-1, 0), Num(100, 0), Num(611, 213000000), Num(100000, 0),
           Num(22064000, 0), Num(30000000, 0), Num(200000000, 0) }
TArgs == { None, Num(100, 0), Num(273, 150000000), Num(300, 0),
           Num(647, 96000000), Num(700, 0) }

Call(op, p, T, mb, out) == [op |-> op, p |-> p, T |-> T, mb |-> mb, out |-> out]

Init ==
    /\ water = NoWater
    /\ last = Call("", None, None, "", Raise(""))
    /\ reaction = << >>
    /\ threads = << >>
    /\ compound = << >>
    /\ got = << >>

\* Water(p, T, massic_basis): a run follows one object; a construction that
\* raised leaves none, and the caller may construct again
Construct(p, T, mb) ==
    LET made == Water_init(p, T, mb)
    IN  /\ ~water.exists
        /\ water' = made.self
        /\ last' = Call("Water", p, T, mb,
                        IF made.raised = "" THEN Return(None) ELSE Raise(made.raised))
        /\ UNCHANGED <<compound, got, reaction, threads>>

\* a call that keeps the explicit p and T it was given in the object
Invoke_StoresArguments(op, p, T, out) ==
    /\ water.exists
    /\ last' = Call(op, p, T, "", out)
    /\ water' = [water EXCEPT !.p = IF p = None THEN @ ELSE p,
                              !.T = IF T = None THEN @ ELSE T]
    /\ UNCHANGED <<compound, got, reaction, threads>>

\* a method call: p and T arguments are locals of the call, self is only read
Invoke(op, p, T, out) ==
    /\ water.exists
    /\ last' = Call(op, p, T, "", out)
    /\ UNCHANGED <<water, compound, got, reaction, threads>>

CallTemperatureSaturation(p) ==
    Invoke("temperature_saturation", p, None, temperature_saturation(water, p))

CallPressureSaturation(T) ==
    Invoke("pressure_saturation", None, T, pressure_saturation(water, T))

\* w.temperature_saturation(w.pressure_saturation(T)): the pressure passed is
\* the one the call before returned
CallSaturationRoundTrip ==
    /\ last.op = "pressure_saturation"
    /\ last.out.kind = "value"
    /\ Invoke("temperature_saturation", last.out.val, None,
              temperature_saturation(water, last.out.val))

CallIsInRegion == Invoke("_is_in_region", None, None, is_in_region(water))

CallGibbsEnergy(p, T) == Invoke("gibbs_energy", p, T, gibbs_energy(water, p, T))

CallSpecificVolume(p, T) ==
    Invoke("specific_volume", p, T, specific_volume(water, p, T))

CallInternalEnergy(p, T) ==
    Invoke("internal_energy", p, T, internal_energy(water, p, T))

CallEntropy(p, T) == Invoke("entropy", p, T, entropy(water, p, T))

CallEnthalpy(p, T) == Invoke("enthalpy", p, T, enthalpy(water, p, T))

CallHeatCapacity(p, T) == Invoke("heat_capacity", p, T, heat_capacity(water, p, T))

CallHeatCapacityConstantV(p, T) ==
    Invoke("heat_capacity_constant_v", p, T, heat_capacity_constant_v(water, p, T))

CallSpeedOfSound(p, T) ==
    Invoke("speed_of_sound", p, T, speed_of_sound(water, p, T))

Next ==
    \/ \E p \in PSamples, T \in TSamples, mb \in MassicArgs : Construct(p, T, mb)
    \/ \E p \in PArgs : CallTemperatureSaturation(p)
    \/ \E T \in TArgs : CallPressureSaturation(T)
    \/ CallSaturationRoundTrip
    \/ CallIsInRegion
    \/ \E a \in ArgPairs : CallGibbsEnergy(a[1], a[2])
    \/ \E a \in ArgPairs : CallSpecificVolume(a[1], a[2])
    \/ \E a \in ArgPairs : CallInternalEnergy(a[1], a[2])
    \/ \E a \in ArgPairs : CallEntropy(a[1], a[2])
    \/ \E a \in ArgPairs : CallEnthalpy(a[1], a[2])
    \/ \E a \in ArgPairs : CallHeatCapacity(a[1], a[2])
    \/ \E a \in ArgPairs : CallHeatCapacityConstantV(a[1], a[2])
    \/ \E a \in ArgPairs : CallSpeedOfSound(a[1], a[2])

Spec == Init /\ [][Next]_vars

-----------------------------------------------------------------------------
(* Claims about the water evaluator *)

Accepted == last.op = "Water" /\ last.out.kind = "value"

\* C1: Water(p, T) raises ValueError exactly when T < 273.15 K, T > 2273.15 K,
\* p < 0, p > 100 MPa, or (T > 1073.15 K and p > 50 MPa); every other (p, T),
\* the inclusive bounds and the corner (1073.15 K, 100 MPa) included, yields
\* the object holding that p and T.
C1_InitRaisesExactlyOutsideEnvelope ==
    last.op = "Water" =>
        LET outside == \/ Lt(last.T, Num(273, 150000000))
                       \/ Gt(last.T, Num(2273, 150000000))
                       \/ Lt(last.p, Num(0, 0))
                       \/ Gt(last.p, Num(100000000, 0))
                       \/ (Gt(last.T, Num(1073, 150000000))
                           /\ Gt(last.p, Num(50000000, 0)))
        IN  /\ outside => (last.out.kind = "ValueError" /\ ~water.exists)
            /\ ~outside => /\ last.out.kind = "value"
                           /\ water.exists
                           /\ water.p = last.p
                           /\ water.T = last.T

\* the corner (100 MPa, 1073.15 K) is constructed
C1_Witness ==
    /\ Accepted
    /\ water.p = Num(100000000, 0)
    /\ water.T = Num(1073, 150000000)

\* C2 as claimed: for every accepted state _is_in_region() returns a region
\* in {1, 2, 3, 5} and never raises.
C2_RegionAlwaysAssigned ==
    last.op = "_is_in_region" =>
        (last.out.kind = "value" /\ last.out.region \in {1, 2, 3, 5})

\* C3: in the band 273.15 K <= T <= 623.15 K, where temperature_saturation(p)
\* yields a value, the region is 1 at the triple point (273.16 K, 611.657 Pa)
\* or when T < T_sat(p), and 2 otherwise (T = T_sat(p) gives 2); (20 MPa, 300 K)
\* is region 1 and (0.1 MPa, 373.15 K) is region 2.
C3_LowBandRegion ==
    (/\ last.op = "_is_in_region"
     /\ Ge(water.T, Num(273, 150000000))
     /\ Le(water.T, Num(623, 150000000))
     /\ temperature_saturation(water, water.p).kind = "value") =>
        LET Tsat == temperature_saturation(water, water.p).val
            triple == water.T = Num(273, 160000000) /\ water.p = Num(611, 657000000)
        IN  /\ last.out.kind = "value"
            /\ last.out.region = IF triple \/ Lt(water.T, Tsat) THEN 1 ELSE 2
            /\ (water.p = Num(20000000, 0) /\ water.T = Num(300, 0))
                   => last.out.region = 1
            /\ (water.p = Num(100000, 0) /\ water.T = Num(373, 150000000))
                   => last.out.region = 2

\* a state on the saturation line, T = T_sat(p), classified as region 2
C3_Witness ==
    /\ last.op = "_is_in_region"
    /\ water.p = Num(100000, 0)
    /\ temperature_saturation(water, water.p).val = water.T
    /\ last.out.region = 2

\* C4: in the band 623.15 K < T <= 1073.15 K the region is 3 if p > p23(T) and
\* 2 otherwise (p = p23(T) gives 2); (40 MPa, 700 K) is region 3.
C4_MidBandRegion ==
    (/\ last.op = "_is_in_region"
     /\ Gt(water.T, Num(623, 150000000))
     /\ Le(water.T, Num(1073, 150000000))) =>
        LET p23 == unit_MPa(B23Equation[water.T])
        IN  /\ last.out.kind = "value"
            /\ last.out.region = IF Gt(water.p, p23) THEN 3 ELSE 2
            /\ (water.p = Num(40000000, 0) /\ water.T = Num(700, 0))
                   => last.out.region = 3

\* a state on the 2-3 boundary, p = p23(T), classified as region 2
C4_Witness ==
    /\ last.op = "_is_in_region"
    /\ water.T = Num(700, 0)
    /\ water.p = unit_MPa(B23Equation[water.T])
    /\ last.out.region = 2

\* C5: for 1073.15 K < T <= 2273.15 K the region is 5 whatever p is; at exactly
\* T = 1073.15 K the middle band applies, so the region is 2 or 3, never 5.
C5_HighBandRegion ==
    last.op = "_is_in_region" =>
        /\ (Gt(water.T, Num(1073, 150000000)) /\ Le(water.T, Num(2273, 150000000)))
               => (last.out.kind = "value" /\ last.out.region = 5)
        /\ water.T = Num(1073, 150000000)
               => (last.out.kind = "value" /\ last.out.region \in {2, 3})

\* the boundary T = 1073.15 K classified by the middle-band rule
C5_Witness ==
    /\ last.op = "_is_in_region"
    /\ water.T = Num(1073, 150000000)
    /\ last.out.region = 2

\* the region a property call is dispatched on
RegionOf(self) == is_in_region(self).region

\* C6 as claimed: in regions 1, 2 and 5 each of specific_volume,
\* internal_energy, entropy, enthalpy, heat_capacity and speed_of_sound returns
\* a value computed from that region's basic equation, never -1 or None.
C6_PropertiesComputedInRegions125 ==
    (/\ last.op \in {"specific_volume", "internal_energy", "entropy",
                     "enthalpy", "heat_capacity", "speed_of_sound"}
     /\ water.R # None
     /\ is_in_region(water).kind = "value"
     /\ RegionOf(water) \in {1, 2, 5}) =>
        /\ last.out.kind = "value"
        /\ last.out.eq = CASE RegionOf(water) = 1 -> "basic_equation1"
                           [] RegionOf(water) = 2 -> "basic_equation2"
                           [] RegionOf(water) = 5 -> "basic_equation5"

\* C7 as claimed: in region 3 every property method other than enthalpy raises
\* a distinct not-implemented error.
C7_Region3RaisesNotImplemented ==
    (/\ last.op \in {"specific_volume", "internal_energy", "entropy",
                     "heat_capacity", "heat_capacity_constant_v",
                     "speed_of_sound", "gibbs_energy"}
     /\ is_in_region(water).kind = "value"
     /\ RegionOf(water) = 3) =>
        last.out.kind = "NotImplementedError"

\* the pressure a saturation call is about: the argument, else the object's
ArgOrOwn(arg, own) == IF arg = None THEN own ELSE arg

\* C8 as claimed: temperature_saturation(p) raises ValueError for every p below
\* 611.213 Pa and every p above 22.064 MPa, and returns a temperature for every
\* p between them, for an explicit p (in Pa) and for the object's own p.
C8_TsatDomain ==
    last.op = "temperature_saturation" =>
        LET p == ArgOrOwn(last.p, water.p)
        IN  IF Lt(p, Num(611, 213000000)) \/ Gt(p, Num(22064000, 0))
            THEN last.out.kind = "ValueError"
            ELSE last.out.kind = "value"

\* C9: pressure_saturation(T) raises ValueError for T < 273.15 K and for
\* T > 647.096 K, and returns a pressure in Pa for every T in between, for an
\* explicit T and for the object's own T (at 300 K: 3536.589 Pa).
C9_PsatDomain ==
    last.op = "pressure_saturation" =>
        LET T == ArgOrOwn(last.T, water.T)
        IN  IF Lt(T, Num(273, 150000000)) \/ Gt(T, Num(647, 96000000))
            THEN last.out.kind = "ValueError"
            ELSE /\ last.out.kind = "value"
                 /\ Gt(last.out.val, Num(611, 0))
                 /\ Lt(last.out.val, Num(22064001, 0))
                 /\ T = Num(300, 0) => last.out.val = Num(3536, 589000000)

\* the critical temperature, passed explicitly, is in the domain
C9_Witness ==
    /\ last.op = "pressure_saturation"
    /\ last.T = Num(647, 96000000)
    /\ last.out.kind = "value"
    /\ last.out.val = Num(22064000, 0)

PropertyMethods ==
    {"gibbs_energy", "specific_volume", "internal_energy", "entropy", "enthalpy",
     "heat_capacity", "heat_capacity_constant_v", "speed_of_sound"}

Plus(a, b) == Num(a[1] + b[1] + ((a[2] + b[2]) \div Giga), (a[2] + b[2]) % Giga)

\* C23: for T in [280, 640] K, temperature_saturation called with the pressure
\* pressure_saturation(T) returned gives T back to within 1e-4 K.
C23_SaturationRoundTrip ==
    [][LET T == ArgOrOwn(last.T, water.T)
           tol == Num(0, 100000)
       IN  (/\ last.op = "pressure_saturation"
            /\ last.out.kind = "value"
            /\ last'.op = "temperature_saturation"
            /\ last'.p = last.out.val
            /\ Ge(T, Num(280, 0)) /\ Le(T, Num(640, 0))) =>
               /\ last'.out.kind = "value"
               /\ Le(last'.out.val, Plus(T, tol))
               /\ Le(T, Plus(last'.out.val, tol))]_vars

\* temperature_saturation has been called with the 3536.589 Pa that
\* pressure_saturation(300) returns, and gave 299.999998 K
C23_Witness ==
    /\ last.op = "temperature_saturation"
    /\ last.p = Num(3536, 589000000)
    /\ last.out.kind = "value"
    /\ last.out.val = Num(299, 999998013)

\* the argument-less method `op` of the Water `self`
PropertyOf(op, self) ==
    CASE op = "gibbs_energy" -> gibbs_energy(self, None, None)
      [] op = "specific_volume" -> specific_volume(self, None, None)
      [] op = "internal_energy" -> internal_energy(self, None, None)
      [] op = "entropy" -> entropy(self, None, None)
      [] op = "enthalpy" -> enthalpy(self, None, None)
      [] op = "heat_capacity" -> heat_capacity(self, None, None)
      [] op = "heat_capacity_constant_v" -> heat_capacity_constant_v(self, None, None)
      [] op = "speed_of_sound" -> speed_of_sound(self, None, None)

\* C27: the constructor assigns R only for massic_basis True (0.461526) or
\* False (8.314472); for another value (1, 0, None) it succeeds and leaves R
\* unset, and then no property method returns a computed value: wherever the
\* method would compute one with R set, the read of R raises AttributeError.
C27_BasisOtherThanBool ==
    /\ (last.op = "Water" /\ last.out.kind = "value") =>
           water.R = CASE last.mb = "True" -> ideal_gas_constant_massic_basis
                       [] last.mb = "False" -> ideal_gas_constant
                       [] OTHER -> None
    /\ (water.exists /\ water.R = None /\ last.op \in PropertyMethods) =>
           /\ last.out.kind \notin {"value", "inf"}
           /\ PropertyOf(last.op, [water EXCEPT !.R = ideal_gas_constant]).kind
                  \in {"value", "inf"} => last.out.kind = "AttributeError"

\* a Water built with a basis that is not a bool has R unset, and its enthalpy,
\* in region 1, raised AttributeError
C27_Witness ==
    /\ water.exists
    /\ water.R = None
    /\ RegionOf(water) = 1
    /\ last.op = "enthalpy"
    /\ last.out.kind = "AttributeError"

\* C22 as claimed: a property method called with explicit p and T returns the
\* property at the given (p, T): what the argument-less method returns on a
\* Water built at (p, T) with the same basis, region and formula included.
C22_ExplicitArguments ==
    (/\ water.exists
     /\ last.op \in PropertyMethods \ {"heat_capacity_constant_v"}
     /\ last.p # None /\ last.T # None) =>
        last.out = PropertyOf(last.op, [water EXCEPT !.p = Pressure(last.p),
                                                     !.T = Temperature(last.T)])

-----------------------------------------------------------------------------
(* thermopy/nasa9polynomials.py: class Compound.  A compound is the record *)
(* of the database, of which the evaluator reads the names and the list of *)
(* T_range elements; temperatures are small integers here, since the       *)
(* selection only compares them.                                           *)

MaxT == 4           \* interval limits range over 1..MaxT
MaxIntervals == 3   \* T_range elements per compound

QueryT == 0..(MaxT + 1)

\* how many coefficient children a T_range element holds: all nine, the
\* seven of the polynomial with one integration constant, or fewer
NCoefs == {6, 8, 9}

\* what the slots of np.empty(9) a loop does not assign may hold: memory that
\* happens to be zero, or another (finite) bit pattern
Leftover == {0, -1}

Intervals ==
    {r \in [Tlow : 1..MaxT, Thigh : 1..MaxT, ncoef : NCoefs] : r.Tlow < r.Thigh}

\* the T_range lists of the records: in increasing order, each interval
\* starting where the one before ends or later
TRangeLists ==
    {rs \in UNION {[1..n -> Intervals] : n \in 1..MaxIntervals} :
        \A i \in 1..(Len(rs) - 1) : rs[i].Thigh <= rs[i + 1].Tlow}

Compounds ==
    {[iupac_name |-> "argon", inp_name |-> "Ar", T_range |-> rs] : rs \in TRangeLists}

\* what a Compound method gives back: the value computed with the coefficients
\* of interval i (counted from 0) by the polynomials named in poly, from the
\* array `coefficients` they read, or the exception raised with the parts of
\* its message
Polynomial(i, poly) ==
    [kind |-> "value", i |-> i, poly |-> poly, msg |-> << >>, coefficients |-> << >>]
OutOfRange(self, T) ==
    [kind |-> "Exception", i |-> -1, poly |-> {},
     msg |-> <<"Temperature out of range for ", self.iupac_name, self.inp_name, T>>,
     coefficients |-> << >>]

\* the text of coefficient child k of a T_range element, as a number: the
\* children are told apart by their position, and none is zero
CoefText(k) == k

\* coefficients = np.empty(9); for (i, coef) in enumerate(T_range[interval]):
\* coefficients[i] = coef.text -- then the slice [0:n] the polynomial reads.
\* Slots past the children keep what np.empty left in them.
ReadCoefficients(self, i, n, empty) ==
    [k \in 1..n |-> IF k <= self.T_range[i + 1].ncoef THEN CoefText(k) ELSE empty]

\* the loop of _evaluate_temperature_interval from element i on: the index of
\* the first T_range element with Tlow <= T <= Thigh, 0 when the loop ends
RECURSIVE FirstContaining(_, _, _)
FirstContaining(ranges, T, i) ==
    IF i > Len(ranges) THEN 0
    ELSE IF ranges[i].Tlow <= T /\ T <= ranges[i].Thigh THEN i
    ELSE FirstContaining(ranges, T, i + 1)

\* a selection by Tlow <= T < Thigh: a shared limit goes to the later interval
evaluate_temperature_interval_HalfOpen(self, T) ==
    LET hits == {i \in 1..Len(self.T_range) :
                    self.T_range[i].Tlow <= T /\ T < self.T_range[i].Thigh}
    IN  IF hits # {}
        THEN Polynomial((CHOOSE i \in hits : \A j \in hits : i <= j) - 1, {})
        ELSE OutOfRange(self, T)

\* Compound._evaluate_temperature_interval(T)
evaluate_temperature_interval(self, T) ==
    LET i == FirstContaining(self.T_range, T, 1)
    IN  IF i # 0 THEN Polynomial(i - 1, {}) ELSE OutOfRange(self, T)

\* Compound.heat_capacity(T); empty: what np.empty(9) holds at this call.
\* The polynomial reads coefficients[0:7].
nasa9_heat_capacity(self, T, empty) ==
    LET sel == evaluate_temperature_interval(self, T)
    IN  IF sel.kind # "value" THEN sel
        ELSE [Polynomial(sel.i, {"heat_capacity"}) EXCEPT
                 !.coefficients = ReadCoefficients(self, sel.i, 7, empty)]

\* Compound.enthalpy(T); the polynomial reads coefficients[0:8]
nasa9_enthalpy(self, T, empty) ==
    LET sel == evaluate_temperature_interval(self, T)
    IN  IF sel.kind # "value" THEN sel
        ELSE [Polynomial(sel.i, {"enthalpy"}) EXCEPT
                 !.coefficients = ReadCoefficients(self, sel.i, 8, empty)]

\* Compound.entropy(T); the polynomial reads coefficients[:], the eighth
\* multiplied by the factor 0
nasa9_entropy(self, T, empty) ==
    LET sel == evaluate_temperature_interval(self, T)
        read == ReadCoefficients(self, sel.i, 9, empty)
    IN  IF sel.kind # "value" THEN sel
        ELSE [Polynomial(sel.i, {"entropy"}) EXCEPT
                 !.coefficients = [read EXCEPT ![8] = 0 * read[8]]]

\* Compound.gibbs_energy(T): self.enthalpy(T) - T * self.entropy(T); each of
\* the two calls allocates its own array
nasa9_gibbs_energy(self, T, empty_h, empty_s) ==
    LET h == nasa9_enthalpy(self, T, empty_h)
        s == nasa9_entropy(self, T, empty_s)
    IN  IF h.kind # "value" THEN h
        ELSE IF s.kind # "value" THEN s
        ELSE [h EXCEPT !.poly = h.poly \cup s.poly,
                       !.coefficients = h.coefficients \o s.coefficients]

NoCall == [op |-> "", T |-> 0, out |-> Polynomial(-1, {})]

InitNasa9 ==
    /\ compound \in Compounds
    /\ got = NoCall
    /\ water = NoWater
    /\ last = Call("", None, None, "", Raise(""))
    /\ reaction = << >>
    /\ threads = << >>

Evaluate(op, T, out) ==
    /\ got' = [op |-> op, T |-> T, out |-> out]
    /\ UNCHANGED <<compound, water, last, reaction, threads>>

CallNasa9HeatCapacity(T, empty) ==
    Evaluate("heat_capacity", T, nasa9_heat_capacity(compound, T, empty))
CallNasa9Enthalpy(T, empty) ==
    Evaluate("enthalpy", T, nasa9_enthalpy(compound, T, empty))
CallNasa9Entropy(T, empty) ==
    Evaluate("entropy", T, nasa9_entropy(compound, T, empty))
CallNasa9GibbsEnergy(T, empty_h, empty_s) ==
    Evaluate("gibbs_energy", T, nasa9_gibbs_energy(compound, T, empty_h, empty_s))

NextNasa9 ==
    \/ \E T \in QueryT, e \in Leftover : CallNasa9HeatCapacity(T, e)
    \/ \E T \in QueryT, e \in Leftover : CallNasa9Enthalpy(T, e)
    \/ \E T \in QueryT, e \in Leftover : CallNasa9Entropy(T, e)
    \/ \E T \in QueryT, eh \in Leftover, es \in Leftover : CallNasa9GibbsEnergy(T, eh, es)

SpecNasa9 == InitNasa9 /\ [][NextNasa9]_vars

-----------------------------------------------------------------------------
(* Claims about the nasa9 compound evaluator *)

Containing(self, T) ==
    {i \in 1..Len(self.T_range) :
        self.T_range[i].Tlow <= T /\ T <= self.T_range[i].Thigh}

\* C10: heat_capacity, enthalpy, entropy and gibbs_energy at T use the interval
\* with Tlow <= T <= Thigh, both ends inclusive, and of two intervals sharing T
\* the one of lower index, so exactly one; when no interval contains T they
\* raise an error naming the compound and T and return no value.
C10_IntervalSelection ==
    got.op \in {"heat_capacity", "enthalpy", "entropy", "gibbs_energy"} =>
        LET hits == Containing(compound, got.T)
        IN  IF hits = {}
            THEN /\ got.out.kind = "Exception"
                 /\ got.out.msg[2] = compound.iupac_name
                 /\ got.out.msg[3] = compound.inp_name
                 /\ got.out.msg[4] = got.T
            ELSE /\ got.out.kind = "value"
                 /\ got.out.i + 1 \in hits
                 /\ \A j \in hits : got.out.i + 1 <= j

\* a temperature that ends one interval and starts the next: the first is used
C10_Witness ==
    /\ got.op = "heat_capacity"
    /\ Len(compound.T_range) >= 2
    /\ compound.T_range[1].Thigh = got.T
    /\ compound.T_range[2].Tlow = got.T
    /\ got.out.kind = "value"
    /\ got.out.i = 0

\* C12 as claimed: when the selected interval stores fewer than 9 coefficients,
\* heat_capacity, enthalpy and entropy use zero for every coefficient it does
\* not store, so that the result depends on the stored ones and T only.
C12_MissingCoefficientsAreZero ==
    (got.op \in {"heat_capacity", "enthalpy", "entropy"} /\ got.out.kind = "value") =>
        \A k \in DOMAIN got.out.coefficients :
            k > compound.T_range[got.out.i + 1].ncoef => got.out.coefficients[k] = 0

\* C18 as claimed: repeating a call to an evaluator with identical inputs
\* returns an identical result; here a Compound method called again on the same
\* compound at the same T, including compounds whose interval stores fewer than
\* 9 coefficients.
C18_RepeatedCallsAgree ==
    [][(got # NoCall /\ got'.op = got.op /\ got'.T = got.T) => got'.out = got.out]_vars

-----------------------------------------------------------------------------
(* thermopy/burcat.py: class Compound.  The record holds two coefficient   *)
(* sets, _low_coefs for temperatures up to 1000 K and _high_coefs above,   *)
(* and the limits of the range the record is valid in.  Temperatures are   *)
(* multiples of 250 K, which puts values on 1000 K and on either side.     *)

MaxBurcatSteps == 7     \* temperatures range up to MaxBurcatSteps * 250 K

BurcatTemps == {250 * k : k \in 1..MaxBurcatSteps}

\* the temperatures a method is called with; 0 K is where 1 / T divides by zero
BurcatQueryT == {0} \cup BurcatTemps

BurcatCompounds ==
    {[formula |-> "FES(L)", T_limit_low |-> l[1], T_limit_high |-> l[2]] :
        l \in {x \in BurcatTemps \X BurcatTemps : x[1] < x[2]}}

\* what a burcat Compound method gives back: the value computed by the
\* polynomials in poly, each with the coefficient set named beside it
\* ("_low_coefs" or "_high_coefs"), or the exception raised
BurcatValue(terms) == [kind |-> "value", terms |-> terms]
BurcatRaise(exc) == [kind |-> exc, terms |-> {}]

\* the branch every property method takes: T >= self._T_limit_low and
\* T <= 1000, elif T > 1000 and T <= self._T_limit_high, else raise
BurcatBranch(self, T) ==
    IF T >= self.T_limit_low /\ T <= 1000 THEN "_low_coefs"
    ELSE IF T > 1000 /\ T <= self.T_limit_high THEN "_high_coefs"
    ELSE "ValueError"

\* burcat Compound.heat_capacity(T)
burcat_heat_capacity(self, T) ==
    LET b == BurcatBranch(self, T)
    IN  IF b = "ValueError" THEN BurcatRaise("ValueError")
        ELSE BurcatValue({<<"heat_capacity", b>>})

\* burcat Compound.enthalpy(T); Ta holds 1 / T and is built before the branch
burcat_enthalpy(self, T) ==
    LET b == BurcatBranch(self, T)
    IN  IF T = 0 THEN BurcatRaise("ZeroDivisionError")
        ELSE IF b = "ValueError" THEN BurcatRaise("ValueError")
        ELSE BurcatValue({<<"enthalpy", b>>})

\* burcat Compound.enthalpy_massic(T)
burcat_enthalpy_massic(self, T) ==
    LET b == BurcatBranch(self, T)
    IN  IF T = 0 THEN BurcatRaise("ZeroDivisionError")
        ELSE IF b = "ValueError" THEN BurcatRaise("ValueError")
        ELSE BurcatValue({<<"enthalpy_massic", b>>})

\* burcat Compound.entropy(T)
burcat_entropy(self, T) ==
    LET b == BurcatBranch(self, T)
    IN  IF b = "ValueError" THEN BurcatRaise("ValueError")
        ELSE BurcatValue({<<"entropy", b>>})

\* burcat Compound.gibbs_energy(T): self.enthalpy(T) - self.entropy(T) * T
\* when T >= self._T_limit_low and T < self._T_limit_high
burcat_gibbs_energy(self, T) ==
    LET h == burcat_enthalpy(self, T)
        s == burcat_entropy(self, T)
    IN  IF T >= self.T_limit_low /\ T < self.T_limit_high
        THEN IF h.kind # "value" THEN h
             ELSE IF s.kind # "value" THEN s
             ELSE BurcatValue(h.terms \cup s.terms)
        ELSE BurcatRaise("ValueError")

InitBurcat ==
    /\ compound \in BurcatCompounds
    /\ got = [op |-> "", T |-> 0, out |-> BurcatRaise("")]
    /\ water = NoWater
    /\ last = Call("", None, None, "", Raise(""))
    /\ reaction = << >>
    /\ threads = << >>

CallBurcatHeatCapacity(T) ==
    Evaluate("heat_capacity", T, burcat_heat_capacity(compound, T))
CallBurcatEnthalpy(T) == Evaluate("enthalpy", T, burcat_enthalpy(compound, T))
CallBurcatEnthalpyMassic(T) ==
    Evaluate("enthalpy_massic", T, burcat_enthalpy_massic(compound, T))
CallBurcatEntropy(T) == Evaluate("entropy", T, burcat_entropy(compound, T))
CallBurcatGibbsEnergy(T) ==
    Evaluate("gibbs_energy", T, burcat_gibbs_energy(compound, T))

NextBurcat ==
    \/ \E T \in BurcatQueryT : CallBurcatHeatCapacity(T)
    \/ \E T \in BurcatQueryT : CallBurcatEnthalpy(T)
    \/ \E T \in BurcatQueryT : CallBurcatEnthalpyMassic(T)
    \/ \E T \in BurcatQueryT : CallBurcatEntropy(T)
    \/ \E T \in BurcatQueryT : CallBurcatGibbsEnergy(T)

SpecBurcat == InitBurcat /\ [][NextBurcat]_vars

-----------------------------------------------------------------------------
(* Claims about the burcat compound evaluator *)

\* C11 as claimed: heat_capacity, enthalpy, enthalpy_massic and entropy return
\* a value for every T with T_limit_low <= T <= T_limit_high and raise
\* ValueError for every T outside it, whatever the two limits are.
C11_BurcatRange ==
    got.op \in {"heat_capacity", "enthalpy", "enthalpy_massic", "entropy"} =>
        IF compound.T_limit_low <= got.T /\ got.T <= compound.T_limit_high
        THEN got.out.kind = "value"
        ELSE got.out.kind = "ValueError"

\* C13 as claimed: gibbs_energy(T) is defined for exactly the temperatures at
\* which enthalpy(T) and entropy(T) are, both ends of the range included, and
\* there it is enthalpy(T) - T * entropy(T) with both terms computed from the
\* same coefficient set.
C13_GibbsDefinedWhereTermsAre ==
    got.op = "gibbs_energy" =>
        LET h == burcat_enthalpy(compound, got.T)
            s == burcat_entropy(compound, got.T)
        IN  /\ (got.out.kind = "value") <=> (h.kind = "value" /\ s.kind = "value")
            /\ got.out.kind = "value" =>
                   /\ got.out.terms = h.terms \cup s.terms
                   /\ \E b \in {"_low_coefs", "_high_coefs"} :
                          got.out.terms = {<<"enthalpy", b>>, <<"entropy", b>>}

-----------------------------------------------------------------------------
(* thermopy/nasa9polynomials.py: class Reaction.  A caller constructs a    *)
(* Reaction from Compounds and coefficients and calls its methods; `got`   *)
(* records each call.                                                      *)

MaxReagents == 2    \* compounds and coefficients per side of a reaction

\* the compounds reactions are made of; each interval stores all 9 coefficients
PCl5 ==
    [iupac_name |-> "pentachloro-phosphorane", inp_name |-> "PCl5",
     T_range |-> <<[Tlow |-> 1, Thigh |-> 2, ncoef |-> 9],
                   [Tlow |-> 2, Thigh |-> 4, ncoef |-> 9]>>]
PCl3 ==
    [iupac_name |-> "trichlorophosphane", inp_name |-> "PCl3",
     T_range |-> <<[Tlow |-> 2, Thigh |-> 3, ncoef |-> 9]>>]

ReactionPool == {PCl5, PCl3}

\* the tuples passed as reactants and as products: no compound twice
ReagentLists ==
    {cs \in UNION {[1..n -> ReactionPool] : n \in 1..MaxReagents} :
        \A i, j \in DOMAIN cs : i # j => cs[i] # cs[j]}

\* the tuples passed as coefficients; a coefficient may be given negative
CoefficientLists == UNION {[1..n -> {1, -2}] : n \in 1..MaxReagents}

ReactionT == 1..MaxT

\* T=None, the default of the evaluation methods
NoT == -1

NoReaction ==
    [exists |-> FALSE, T |-> NoT, reactants |-> << >>, products |-> << >>,
     rcoefs |-> << >>, pcoefs |-> << >>]

abs(z) == IF z < 0 THEN -z ELSE z

\* what a Reaction call gives back: the number `fn` of the sum of `terms`
\* evaluated with the reference temperature `at`, or the exception raised
ReactionValue(fn, terms, at) ==
    [kind |-> "value", fn |-> fn, terms |-> terms, at |-> at, msg |-> << >>]
ReactionRaise(msg) ==
    [kind |-> "Exception", fn |-> "", terms |-> << >>, at |-> NoT, msg |-> msg]

\* a constructor that compares the lengths of the reactants' side only
Reaction_init_ReactantsOnly(T, reactants, products, reactants_coefficients, product_coefficients) ==
    IF Len(reactants) # Len(reactants_coefficients)
    THEN [raised |-> TRUE, self |-> NoReaction]
    ELSE [raised |-> FALSE,
          self |-> [exists |-> TRUE, T |-> T, reactants |-> reactants,
                    products |-> products,
                    rcoefs |-> [k \in DOMAIN reactants_coefficients |->
                                   abs(reactants_coefficients[k])],
                    pcoefs |-> [k \in DOMAIN product_coefficients |->
                                   abs(product_coefficients[k])]]]

\* Reaction.__init__: the object, or the exception raised
Reaction_init(T, reactants, products, reactants_coefficients, product_coefficients) ==
    LET rcoefs == [k \in DOMAIN reactants_coefficients |->
                      abs(reactants_coefficients[k])]
        pcoefs == [k \in DOMAIN product_coefficients |->
                      abs(product_coefficients[k])]
    IN  IF Len(reactants) # Len(rcoefs) \/ Len(products) # Len(pcoefs)
        THEN [raised |-> TRUE, self |-> NoReaction]
        ELSE [raised |-> FALSE,
              self |-> [exists |-> TRUE, T |-> T, reactants |-> reactants,
                        products |-> products, rcoefs |-> rcoefs,
                        pcoefs |-> pcoefs]]

\* methods that evaluate at self.T and never store their argument
SetT_Dropped(self, T) == self

\* if T is not None: self.T = T
SetT(self, T) == IF T # NoT THEN [self EXCEPT !.T = T] ELSE self

\* zip(a, b): pairs up to the end of the shorter sequence
zip(a, b) ==
    [k \in 1..(IF Len(a) < Len(b) THEN Len(a) ELSE Len(b)) |-> <<a[k], b[k]>>]

\* compound.enthalpy(T), compound.entropy(T) or compound.gibbs_energy(T)
CompoundProperty(c, poly, T) ==
    CASE poly = "enthalpy" -> nasa9_enthalpy(c, T, 0)
      [] poly = "entropy" -> nasa9_entropy(c, T, 0)
      [] poly = "gibbs_energy" -> nasa9_gibbs_energy(c, T, 0, 0)

\* one loop of a reaction sum, every iteration reading self.T:
\* for (coefficient, compound) in pairs:
\*     delta = delta + sign * coefficient * compound.<poly>(self.T)
LoopTerms(sign, pairs, poly, T) ==
    [k \in DOMAIN pairs |->
        [sign |-> sign, coefficient |-> pairs[k][1],
         compound |-> pairs[k][2].inp_name, poly |-> poly, T |-> T,
         out |-> CompoundProperty(pairs[k][2], poly, T)]]

\* the iterations of the two loops, in the order they run
SumTerms(self, poly) ==
    LoopTerms(-1, zip(self.rcoefs, self.reactants), poly, self.T)
    \o LoopTerms(1, zip(self.rcoefs, self.products), poly, self.T)

\* the two loops of enthalpy_reaction, entropy_reaction and
\* gibbs_energy_reaction: the first compound method that raises ends the call
ReactionSum(self, poly) ==
    LET all == SumTerms(self, poly)
        bad == {k \in DOMAIN all : all[k].out.kind # "value"}
        first == CHOOSE k \in bad : \A j \in bad : k <= j
    IN  IF bad # {}
        THEN ReactionRaise(all[first].out.msg)
        ELSE ReactionValue("sum",
                 [k \in DOMAIN all |->
                     [sign |-> all[k].sign, coefficient |-> all[k].coefficient,
                      compound |-> all[k].compound, poly |-> poly,
                      T |-> all[k].T]],
                 self.T)

\* an enthalpy_reaction that puts the reference temperature back when a
\* compound raises
enthalpy_reaction_RestoresT(self, T) ==
    LET self1 == SetT(self, T)
        out == ReactionSum(self1, "enthalpy")
    IN  [self |-> IF out.kind = "value" THEN self1 ELSE self, out |-> out]

\* Reaction.enthalpy_reaction(T=None): the object after the call and the outcome
enthalpy_reaction(self, T) ==
    LET self1 == SetT(self, T)
    IN  [self |-> self1, out |-> ReactionSum(self1, "enthalpy")]

\* Reaction.entropy_reaction(T=None)
entropy_reaction(self, T) ==
    LET self1 == SetT(self, T)
    IN  [self |-> self1, out |-> ReactionSum(self1, "entropy")]

\* a gibbs_energy_reaction whose product loop runs over
\* zip(self._pcoefs, self._products)
gibbs_energy_reaction_ProductCoefficients(self, T) ==
    LET self1 == SetT(self, T)
        all == LoopTerms(-1, zip(self1.rcoefs, self1.reactants), "gibbs_energy", self1.T)
               \o LoopTerms(1, zip(self1.pcoefs, self1.products), "gibbs_energy", self1.T)
        bad == {k \in DOMAIN all : all[k].out.kind # "value"}
        first == CHOOSE k \in bad : \A j \in bad : k <= j
    IN  [self |-> self1,
         out |-> IF bad # {}
                 THEN ReactionRaise(all[first].out.msg)
                 ELSE ReactionValue("sum",
                          [k \in DOMAIN all |->
                              [sign |-> all[k].sign, coefficient |-> all[k].coefficient,
                               compound |-> all[k].compound, poly |-> "gibbs_energy",
                               T |-> all[k].T]],
                          self1.T)]

\* Reaction.gibbs_energy_reaction(T=None)
gibbs_energy_reaction(self, T) ==
    LET self1 == SetT(self, T)
    IN  [self |-> self1, out |-> ReactionSum(self1, "gibbs_energy")]

\* Reaction.equilibrium_constant(T=None):
\* np.exp(-1 * self.gibbs_energy_reaction(self.T) / (_R * self.T))
equilibrium_constant(self, T) ==
    LET self1 == SetT(self, T)
        g == gibbs_energy_reaction(self1, self1.T)
    IN  [self |-> g.self,
         out |-> IF g.out.kind # "value" THEN g.out
                 ELSE ReactionValue("exp", g.out.terms, g.self.T)]

ReactionCall(op, T, args, out) == [op |-> op, T |-> T, args |-> args, out |-> out]

InitReaction ==
    /\ reaction = NoReaction
    /\ got = ReactionCall("", NoT, << >>, ReactionRaise(<< >>))
    /\ threads = << >>
    /\ compound = << >>
    /\ water = NoWater
    /\ last = Call("", None, None, "", Raise(""))

\* Reaction(T, reactants, products, reactants_coefficients,
\* product_coefficients): a run follows one construction
ConstructReaction(T, reactants, products, as, bs) ==
    LET made == Reaction_init(T, reactants, products, as, bs)
    IN  /\ ~reaction.exists
        /\ got.op = ""
        /\ reaction' = made.self
        /\ got' = ReactionCall("Reaction", T, <<reactants, products, as, bs>>,
                      IF made.raised
                      THEN ReactionRaise(<<"Number of reactants or products is different">>)
                      ELSE ReactionValue("", << >>, T))
        /\ UNCHANGED <<water, last, compound, threads>>

InvokeReaction(op, T, done) ==
    /\ reaction.exists
    /\ reaction' = done.self
    /\ got' = ReactionCall(op, T, << >>, done.out)
    /\ UNCHANGED <<water, last, compound, threads>>

CallEnthalpyReaction(T) ==
    InvokeReaction("enthalpy_reaction", T, enthalpy_reaction(reaction, T))
CallEntropyReaction(T) ==
    InvokeReaction("entropy_reaction", T, entropy_reaction(reaction, T))
CallGibbsEnergyReaction(T) ==
    InvokeReaction("gibbs_energy_reaction", T, gibbs_energy_reaction(reaction, T))
CallEquilibriumConstant(T) ==
    InvokeReaction("equilibrium_constant", T, equilibrium_constant(reaction, T))

NextReaction ==
    \/ \E T \in ReactionT, r \in ReagentLists, p \in ReagentLists,
          as \in CoefficientLists, bs \in CoefficientLists :
          ConstructReaction(T, r, p, as, bs)
    \/ \E T \in ReactionT \cup {NoT} : CallEnthalpyReaction(T)
    \/ \E T \in ReactionT \cup {NoT} : CallEntropyReaction(T)
    \/ \E T \in ReactionT \cup {NoT} : CallGibbsEnergyReaction(T)
    \/ \E T \in ReactionT \cup {NoT} : CallEquilibriumConstant(T)

SpecReaction == InitReaction /\ [][NextReaction]_vars

-----------------------------------------------------------------------------
(* Threads calling enthalpy_reaction on one Reaction without a lock.  A    *)
(* call is the assignment self.T = T, then one step per loop iteration,    *)
(* each reading self.T as it is at that moment, then the return; the       *)
(* interpreter may switch threads between any two of these steps.          *)

NThreads == 2

Threads == 1..NThreads

\* the temperatures the threads pass: both inside the range of every compound
ThreadT == {2, 3}

Idle == [pc |-> "idle", T |-> NoT, terms |-> << >>, out |-> ReactionRaise(<< >>)]

InitThreads ==
    /\ reaction = Reaction_init(2, <<PCl5>>, <<PCl3>>, <<1>>, <<1>>).self
    /\ threads = [t \in Threads |-> Idle]
    /\ got = << >>
    /\ compound = << >>
    /\ water = NoWater
    /\ last = Call("", None, None, "", Raise(""))

\* thread t enters enthalpy_reaction(T): if T is not None: self.T = T
ThreadBegin(t, T) ==
    /\ threads[t].pc = "idle"
    /\ reaction' = SetT(reaction, T)
    /\ threads' = [threads EXCEPT ![t] = [Idle EXCEPT !.pc = "loop", !.T = T]]
    /\ UNCHANGED <<water, last, compound, got>>

\* thread t runs its next loop iteration:
\* deltah = deltah -/+ coefficient * compound.enthalpy(self.T)
ThreadIterate(t) ==
    LET all == SumTerms(reaction, "enthalpy")
        k == Len(threads[t].terms) + 1
    IN  /\ threads[t].pc = "loop"
        /\ k <= Len(all)
        /\ threads' = [threads EXCEPT ![t] =
               IF all[k].out.kind # "value"
               THEN [@ EXCEPT !.pc = "done", !.out = ReactionRaise(all[k].out.msg)]
               ELSE [@ EXCEPT !.terms = Append(@,
                        [sign |-> all[k].sign, coefficient |-> all[k].coefficient,
                         compound |-> all[k].compound, poly |-> "enthalpy",
                         T |-> all[k].T])]]
        /\ UNCHANGED <<water, last, compound, got, reaction>>

\* thread t leaves the loops: return deltah
ThreadReturn(t) ==
    /\ threads[t].pc = "loop"
    /\ Len(threads[t].terms) = Len(SumTerms(reaction, "enthalpy"))
    /\ threads' = [threads EXCEPT ![t] =
           [@ EXCEPT !.pc = "done",
                     !.out = ReactionValue("sum", threads[t].terms, threads[t].T)]]
    /\ UNCHANGED <<water, last, compound, got, reaction>>

NextThreads ==
    \/ \E t \in Threads, T \in ThreadT : ThreadBegin(t, T)
    \/ \E t \in Threads : ThreadIterate(t)
    \/ \E t \in Threads : ThreadReturn(t)

SpecThreads == InitThreads /\ [][NextThreads]_vars

\* C17 as claimed: when threads call enthalpy_reaction on one Reaction with
\* different temperatures, under every interleaving each call returns the sum
\* evaluated entirely at its own T.
C17_EachCallAtItsOwnT ==
    \A t \in Threads :
        threads[t].pc = "done" =>
            threads[t].out = enthalpy_reaction(reaction, threads[t].T).out

-----------------------------------------------------------------------------
(* Claims about the nasa9 Reaction *)

RECURSIVE SumSeq(_)
SumSeq(seq) == IF Len(seq) = 0 THEN 0 ELSE Head(seq) + SumSeq(Tail(seq))

\* the net factor of compound `name` in a sum of terms
NetFactor(terms, name) ==
    SumSeq([k \in DOMAIN terms |->
               IF terms[k].compound = name
               THEN terms[k].sign * terms[k].coefficient ELSE 0])

\* the factor of compound `name` in the sum of coefs[k] * property(compounds[k])
Weighted(coefs, compounds, name) ==
    SumSeq([k \in DOMAIN compounds |->
               IF compounds[k].inp_name = name THEN coefs[k] ELSE 0])

\* C14 as claimed: enthalpy_reaction(T), entropy_reaction(T) and
\* gibbs_energy_reaction(T) are the sum over the products of |b_j| times the
\* product's property minus the sum over the reactants of |a_i| times the
\* reactant's property: every product counts, with its own coefficient.
C14_ReactionSums ==
    (/\ got.op \in {"enthalpy_reaction", "entropy_reaction", "gibbs_energy_reaction"}
     /\ got.out.kind = "value") =>
        \A c \in ReactionPool :
            NetFactor(got.out.terms, c.inp_name)
                = Weighted(reaction.pcoefs, reaction.products, c.inp_name)
                  - Weighted(reaction.rcoefs, reaction.reactants, c.inp_name)

\* C15: Reaction(T, reactants, products, reactants_coefficients,
\* product_coefficients) raises whenever len(reactants) differs from
\* len(reactants_coefficients) or len(products) from len(product_coefficients),
\* and then no object exists; when both match it yields the object, whose
\* lengths stay equal for as long as it lives.
C15_ReactionLengths ==
    /\ got.op = "Reaction" =>
           IF Len(got.args[1]) # Len(got.args[3]) \/ Len(got.args[2]) # Len(got.args[4])
           THEN got.out.kind = "Exception" /\ ~reaction.exists
           ELSE /\ got.out.kind = "value"
                /\ reaction.exists
                /\ reaction.reactants = got.args[1]
                /\ reaction.products = got.args[2]
    /\ reaction.exists =>
           /\ Len(reaction.reactants) = Len(reaction.rcoefs)
           /\ Len(reaction.products) = Len(reaction.pcoefs)

\* a construction refused for its products' side alone
C15_Witness ==
    /\ got.op = "Reaction"
    /\ Len(got.args[1]) = Len(got.args[3])
    /\ Len(got.args[2]) # Len(got.args[4])
    /\ got.out.kind = "Exception"
    /\ ~reaction.exists

ReactionMethods ==
    {"enthalpy_reaction", "entropy_reaction", "gibbs_energy_reaction",
     "equilibrium_constant"}

\* C16: the reference temperature starts as the constructor's T; a call of one
\* of the four methods with an explicit T replaces it, a call with no T leaves
\* it and evaluates every term at it; no call changes the reactants, the
\* products or the coefficients.
C16_ReferenceTemperature ==
    [][/\ (~reaction.exists /\ reaction'.exists) => reaction'.T = got'.T
       /\ (reaction.exists /\ got'.op \in ReactionMethods) =>
              /\ reaction'.T = IF got'.T # NoT THEN got'.T ELSE reaction.T
              /\ reaction'.reactants = reaction.reactants
              /\ reaction'.products = reaction.products
              /\ reaction'.rcoefs = reaction.rcoefs
              /\ reaction'.pcoefs = reaction.pcoefs
              /\ got'.out.kind = "value" =>
                     /\ got'.out.at = reaction'.T
                     /\ \A k \in DOMAIN got'.out.terms :
                            got'.out.terms[k].T = reaction'.T]_vars

\* a call with no T evaluated at the reference temperature the object holds
C16_Witness ==
    /\ got.op = "equilibrium_constant"
    /\ got.T = NoT
    /\ got.out.kind = "value"
    /\ got.out.at = 3
    /\ reaction.T = 3

C28_ErrorLeavesTOverwritten ==
    [][/\ (/\ reaction.exists
           /\ got'.op \in ReactionMethods
           /\ got'.T # NoT
           /\ got'.out.kind # "value") =>
              /\ got'.out.kind = "Exception"
              /\ got'.out.msg[1] = "Temperature out of range for "
              /\ reaction'.T = got'.T
       /\ (/\ got.op \in ReactionMethods
           /\ got.T # NoT
           /\ got.out.kind # "value"
           /\ got'.op \in ReactionMethods
           /\ got'.T = NoT) =>
              /\ got'.out = got.out
              /\ reaction'.T = got.T]_vars

\* enthalpy_reaction(4) has raised on a reaction whose product PCl3 ends at
\* 3, and the reference temperature is 4
C28_Witness ==
    /\ got.op = "enthalpy_reaction"
    /\ got.T = 4
    /\ got.out.kind = "Exception"
    /\ reaction.products = <<PCl3>>
    /\ reaction.reactants = <<PCl5>>
    /\ reaction.T = 4

-----------------------------------------------------------------------------
(* thermopy/nasa9polynomials.py: class Database.  The database is the list *)
(* of species elements of the XML file; a text is the sequence of its      *)
(* characters, so that lower(), the regular expressions and the substring  *)
(* test of the search are computed.                                        *)

\* str.lower() on the letters the texts below are written with
LowerChar(c) ==
    CASE c = "A" -> "a" [] c = "G" -> "g" [] c = "L" -> "l" [] c = "X" -> "x"
      [] c = "R" -> "r" [] c = "E" -> "e" [] OTHER -> c
lower(s) == [k \in DOMAIN s |-> LowerChar(s[k])]

\* x in s, for strings
IsSubstring(x, s) ==
    \E k \in 0..(Len(s) - Len(x)) : SubSeq(s, k + 1, k + Len(x)) = x

\* an object of class Element, of which find() returns the children
Element(tag, text) == [type |-> "Element", tag |-> tag, text |-> text]

\* Python's == between an Element and a str: objects of different classes that
\* define no common equality are unequal
PyEqualsStr(a, text) == a.type = "str" /\ a.text = text

Specie(inp_file_name, iupac, key, cas, comment, condensed, ranges) ==
    [inp_file_name |-> inp_file_name,
     IUPAC_name |-> Element("IUPAC_name", iupac),
     InChIKey |-> Element("InChIKey", key),
     cas_number |-> Element("cas_number", cas),
     comment |-> Element("comment", comment),
     condensed |-> Element("condensed", condensed),
     T_range |-> ranges]

\* the root element: gaseous and crystalline gallium, and argon
Root ==
    LET gallium == <<"g", "a", "l", "l", "i", "u", "m">>
        GalliumKey ==
            <<"G", "Y", "H", "N", "N", "Y", "V", "S", "Q", "Q", "E", "P", "J", "S", "-",
              "U", "H", "F", "F", "F", "A", "O", "Y", "S", "A", "-", "N">>
        ArgonKey ==
            <<"X", "K", "R", "F", "Y", "H", "L", "G", "V", "U", "S", "R", "O", "Y", "-",
              "U", "H", "F", "F", "F", "A", "O", "Y", "S", "A", "-", "N">>
        GalliumCas == <<"7", "4", "4", "0", "-", "5", "5", "-", "3">>
        ArgonCas == <<"7", "4", "4", "0", "-", "3", "7", "-", "1">>
    IN  << Specie(<<"G", "a">>, gallium, GalliumKey, GalliumCas, <<"g", "a", "s">>,
                  "False", <<[Tlow |-> 1, Thigh |-> 3, ncoef |-> 8]>>),
           Specie(<<"G", "a", "(", "c", "r", ")">>, gallium, GalliumKey, GalliumCas,
                  <<"c", "r">>, "True",
                  <<[Tlow |-> 1, Thigh |-> 2, ncoef |-> 8],
                    [Tlow |-> 2, Thigh |-> 3, ncoef |-> 8]>>),
           Specie(<<"A", "r">>, <<"a", "r", "g", "o", "n">>, ArgonKey, ArgonCas,
                  <<"g", "a", "s">>, "False",
                  <<[Tlow |-> 1, Thigh |-> 4, ncoef |-> 9]>>) >>

\* the identifiers a caller passes: names, an aggregation state, part of a
\* name, a name of no record, InChIKeys and CAS numbers
Identifiers ==
    { <<"G", "a">>, <<"G", "a", "(", "c", "r", ")">>, <<"A", "R">>,
      Root[1].IUPAC_name.text, <<"c", "r">>, <<"X", "e">>,
      Root[3].InChIKey.text, Root[1].InChIKey.text, Root[3].cas_number.text,
      <<"1", "2", "-", "3", "4", "-", "5">> }

\* re.match(inchikey_re, x) with '[A-Z]{14}-[A-Z]{10}-[A-Z]', anchored at the start
MatchesInchikey(x) ==
    LET Upper == {"A", "E", "F", "G", "H", "J", "K", "L", "N", "O", "P", "Q", "R",
                  "S", "U", "V", "X", "Y"}
    IN  /\ Len(x) >= 27
        /\ \A k \in (1..14) \cup (16..25) \cup {27} : x[k] \in Upper
        /\ x[15] = "-" /\ x[26] = "-"

\* re.match(cas_re, x) with '[0-9]{2,7}-[0-9][0-9]-[0-9]'
MatchesCas(x) ==
    LET Digits == {"0", "1", "2", "3", "4", "5", "6", "7", "8", "9"}
    IN  \E n \in 2..7 :
            /\ Len(x) >= n + 5
            /\ \A k \in (1..n) \cup {n + 2, n + 3, n + 5} : x[k] \in Digits
            /\ x[n + 1] = "-" /\ x[n + 4] = "-"

\* Database._search_database(x): the list of matching species, or None when
\* the list is empty (the return statement is inside a loop over the list)
search_database(x) ==
    LET ByKey(specie) == x = specie.InChIKey.text
        ByCas(specie) == x = specie.cas_number.text
        Exact(specie) == \/ lower(x) = lower(specie.IUPAC_name.text)
                         \/ lower(x) = lower(specie.inp_file_name)
        Loose(specie) ==
            IsSubstring(lower(x),
                lower(specie.inp_file_name \o <<" ">> \o specie.comment.text
                      \o <<" ">> \o specie.IUPAC_name.text))
        result_list ==
            IF MatchesInchikey(x) THEN SelectSeq(Root, ByKey)
            ELSE IF MatchesCas(x) THEN SelectSeq(Root, ByCas)
            ELSE IF Len(SelectSeq(Root, Exact)) = 1 THEN SelectSeq(Root, Exact)
            ELSE SelectSeq(Root, Loose)
    IN  IF result_list = << >> THEN None ELSE result_list

\* Compound.__init__(xml_compound) and CompoundIdealGas, which inherits it
NewCompound(class, xml_compound) ==
    [class |-> class,
     inp_name |-> xml_compound.inp_file_name,
     iupac_name |-> xml_compound.IUPAC_name.text,
     T_range |-> xml_compound.T_range,
     xml_compound |-> xml_compound]

SetResult(kind, obj, msg) == [kind |-> kind, obj |-> obj, msg |-> msg]

\* Database.set_compound(x); len(None) raises TypeError
set_compound(x) ==
    LET result == search_database(x)
    IN  IF result = None THEN SetResult("TypeError", None, << >>)
        ELSE IF Len(result) # 1
        THEN IF Len(result) = 0
             THEN SetResult("Exception", None, <<"No compound found.">>)
             ELSE SetResult("Exception", None,
                      <<"not unique", x, result[1].inp_file_name, result[2].inp_file_name>>)
        ELSE IF PyEqualsStr(result[1].condensed, "True")
        THEN SetResult("value", NewCompound("Compound", result[1]), << >>)
        ELSE SetResult("value", NewCompound("CompoundIdealGas", result[1]), << >>)

NoAttribute(name) ==
    [kind |-> "AttributeError", i |-> -1, poly |-> {}, msg |-> <<name>>,
     coefficients |-> << >>]

\* CompoundIdealGas.heat_capacity_constant_v(T): self.heat_capacity(T) - _R;
\* the class Compound has no attribute of this name
nasa9_heat_capacity_constant_v(self, T, empty) ==
    LET cp == nasa9_heat_capacity(self, T, empty)
    IN  IF self.class # "CompoundIdealGas" THEN NoAttribute("heat_capacity_constant_v")
        ELSE IF cp.kind # "value" THEN cp
        ELSE [cp EXCEPT !.poly = @ \cup {"minus_R"}]

\* CompoundIdealGas.internal_energy(T): self.enthalpy(T) - _R * T
nasa9_internal_energy(self, T, empty) ==
    LET h == nasa9_enthalpy(self, T, empty)
    IN  IF self.class # "CompoundIdealGas" THEN NoAttribute("internal_energy")
        ELSE IF h.kind # "value" THEN h
        ELSE [h EXCEPT !.poly = @ \cup {"minus_R_T"}]

InitDatabase ==
    /\ compound = None
    /\ got = [op |-> "", x |-> None, T |-> 0, out |-> None]
    /\ water = NoWater
    /\ last = Call("", None, None, "", Raise(""))
    /\ reaction = << >>
    /\ threads = << >>

\* c = db.set_compound(x): the name is bound when the call returns
SetCompound(x) ==
    LET r == set_compound(x)
    IN  /\ got' = [op |-> "set_compound", x |-> x, T |-> 0, out |-> r]
        /\ compound' = IF r.kind = "value" THEN r.obj ELSE compound
        /\ UNCHANGED <<water, last, reaction, threads>>

CallMethod(op, T, out) ==
    /\ compound # None
    /\ got' = [op |-> op, x |-> None, T |-> T, out |-> out]
    /\ UNCHANGED <<compound, water, last, reaction, threads>>

\* the methods both classes have
CallInheritedHeatCapacity(T, empty) ==
    CallMethod("heat_capacity", T, nasa9_heat_capacity(compound, T, empty))

CallInheritedEnthalpy(T, empty) ==
    CallMethod("enthalpy", T, nasa9_enthalpy(compound, T, empty))

CallInheritedEntropy(T, empty) ==
    CallMethod("entropy", T, nasa9_entropy(compound, T, empty))

CallIdealGasHeatCapacityConstantV(T, empty) ==
    CallMethod("heat_capacity_constant_v", T,
               nasa9_heat_capacity_constant_v(compound, T, empty))

CallIdealGasInternalEnergy(T, empty) ==
    CallMethod("internal_energy", T, nasa9_internal_energy(compound, T, empty))

NextDatabase ==
    \/ \E x \in Identifiers : SetCompound(x)
    \/ \E T \in QueryT, e \in Leftover : CallInheritedHeatCapacity(T, e)
    \/ \E T \in QueryT, e \in Leftover : CallInheritedEnthalpy(T, e)
    \/ \E T \in QueryT, e \in Leftover : CallInheritedEntropy(T, e)
    \/ \E T \in QueryT, e \in Leftover : CallIdealGasHeatCapacityConstantV(T, e)
    \/ \E T \in QueryT, e \in Leftover : CallIdealGasInternalEnergy(T, e)

SpecDatabase == InitDatabase /\ [][NextDatabase]_vars

-----------------------------------------------------------------------------
(* Claims about the nasa9 Database *)

\* C20 as claimed: set_compound returns a plain Compound, which has no
\* heat_capacity_constant_v and no internal_energy, when the matched record's
\* condensed flag is 'True', and a CompoundIdealGas otherwise.
C20_ClassFollowsCondensedFlag ==
    /\ (got.op = "set_compound" /\ got.out.kind = "value") =>
          (got.out.obj.class = "Compound"
              <=> got.out.obj.xml_compound.condensed.text = "True")
    /\ (got.op \in {"heat_capacity_constant_v", "internal_energy"}
           /\ compound.xml_compound.condensed.text = "True") =>
          got.out.kind = "AttributeError"

\* C21 as claimed: set_compound(x) raises the 'No compound found.' error when
\* the search matches no record, the 'not unique' error when it matches more
\* than one, and returns the compound built from the record when it matches
\* exactly one.
C21_LookupErrors ==
    got.op = "set_compound" =>
        LET result == search_database(got.x)
        IN  IF result = None
            THEN /\ got.out.kind = "Exception"
                 /\ got.out.msg = <<"No compound found.">>
            ELSE IF Len(result) > 1
            THEN /\ got.out.kind = "Exception"
                 /\ got.out.msg[1] = "not unique"
            ELSE /\ got.out.kind = "value"
                 /\ got.out.obj.xml_compound = result[1]

-----------------------------------------------------------------------------
(* thermopy/units.py: the measures Temperature, Pressure, Enthalpy, Length, *)
(* Massflow, Massflowrate and Energy.  Each is a float whose unit(code)     *)
(* returns a new object of the class holding the value in SI units.  A      *)
(* float is written as its shortest decimal spelling, which names one       *)
(* double: two floats are equal exactly when their spellings are.           *)

UnitClasses ==
    {"Temperature", "Pressure", "Enthalpy", "Length", "Massflow", "Massflowrate",
     "Energy"}

\* the values the objects are built with
UnitData ==
    "Temperature" :> {"0.0", "25.0", "0.1", "273.15", "298.15", "273.25"} @@
    "Pressure" :> {"1.0", "2.0", "0.07", "0.01", "760.0", "1520.0", "53.2", "7.6000000000000005"} @@
    "Enthalpy" :> {"1.0", "2.5"} @@
    "Length" :> {"1.0", "2.5"} @@
    "Massflow" :> {"1.0", "2.5"} @@
    "Massflowrate" :> {"1.0", "2.5"} @@
    "Energy" :> {"1.0", "2.5"}

\* the codes passed to unit(): for each class the codes its unit() names, its
\* default, and a code it does not know
UnitCodes ==
    "Temperature" :> {"K", "C", "F", "x"} @@
    "Pressure" :> {"Pa", "MPa", "bar", "psi", "atm", "mmwc", "torr", "x"} @@
    "Enthalpy" :> {"si", "kJkg", "kcalkg", "Btulb", "x"} @@
    "Length" :> {"m", "mm", "inch", "ft", "x"} @@
    "Massflow" :> {"kgs", "kgh", "lbs", "lbh", "x"} @@
    "Massflowrate" :> {"default", "Btu", "x"} @@
    "Energy" :> {"J", "BTU", "Btu", "cal", "kWh", "x"}

\* the argument of self.__factory in each branch of each unit(): the value of
\* the source expression (self.data, constants.C2K(self.data), self.data *
\* constants.torr, ...) in double arithmetic
UnitTable ==
    <<"Temperature", "0.0", "K">> :> "0.0" @@
    <<"Temperature", "0.0", "C">> :> "273.15" @@
    <<"Temperature", "0.0", "F">> :> "255.3722222222222" @@
    <<"Temperature", "25.0", "K">> :> "25.0" @@
    <<"Temperature", "25.0", "C">> :> "298.15" @@
    <<"Temperature", "25.0", "F">> :> "269.26111111111106" @@
    <<"Temperature", "0.1", "K">> :> "0.1" @@
    <<"Temperature", "0.1", "C">> :> "273.25" @@
    <<"Temperature", "0.1", "F">> :> "255.42777777777775" @@
    <<"Temperature", "273.15", "K">> :> "273.15" @@
    <<"Temperature", "273.15", "C">> :> "546.3" @@
    <<"Temperature", "273.15", "F">> :> "407.12222222222215" @@
    <<"Temperature", "298.15", "K">> :> "298.15" @@
    <<"Temperature", "298.15", "C">> :> "571.3" @@
    <<"Temperature", "298.15", "F">> :> "421.01111111111106" @@
    <<"Temperature", "273.25", "K">> :> "273.25" @@
    <<"Temperature", "273.25", "C">> :> "546.4" @@
    <<"Temperature", "273.25", "F">> :> "407.17777777777775" @@
    <<"Pressure", "1.0", "Pa">> :> "1.0" @@
    <<"Pressure", "1.0", "MPa">> :> "1000000.0" @@
    <<"Pressure", "1.0", "bar">> :> "100000.0" @@
    <<"Pressure", "1.0", "psi">> :> "6894.757293168361" @@
    <<"Pressure", "1.0", "atm">> :> "101325.0" @@
    <<"Pressure", "1.0", "mmwc">> :> "9.850921266517854" @@
    <<"Pressure", "1.0", "torr">> :> "133.32236842105263" @@
    <<"Pressure", "2.0", "Pa">> :> "2.0" @@
    <<"Pressure", "2.0", "MPa">> :> "2000000.0" @@
    <<"Pressure", "2.0", "bar">> :> "200000.0" @@
    <<"Pressure", "2.0", "psi">> :> "13789.514586336722" @@
    <<"Pressure", "2.0", "atm">> :> "202650.0" @@
    <<"Pressure", "2.0", "mmwc">> :> "19.70184253303571" @@
    <<"Pressure", "2.0", "torr">> :> "266.64473684210526" @@
    <<"Pressure", "0.07", "Pa">> :> "0.07" @@
    <<"Pressure", "0.07", "MPa">> :> "70000.0" @@
    <<"Pressure", "0.07", "bar">> :> "7000.000000000001" @@
    <<"Pressure", "0.07", "psi">> :> "482.6330105217853" @@
    <<"Pressure", "0.07", "atm">> :> "7092.750000000001" @@
    <<"Pressure", "0.07", "mmwc">> :> "0.6895644886562499" @@
    <<"Pressure", "0.07", "torr">> :> "9.332565789473685" @@
    <<"Pressure", "0.01", "Pa">> :> "0.01" @@
    <<"Pressure", "0.01", "MPa">> :> "10000.0" @@
    <<"Pressure", "0.01", "bar">> :> "1000.0" @@
    <<"Pressure", "0.01", "psi">> :> "68.94757293168361" @@
    <<"Pressure", "0.01", "atm">> :> "1013.25" @@
    <<"Pressure", "0.01", "mmwc">> :> "0.09850921266517855" @@
    <<"Pressure", "0.01", "torr">> :> "1.3332236842105263" @@
    <<"Pressure", "760.0", "Pa">> :> "760.0" @@
    <<"Pressure", "760.0", "MPa">> :> "760000000.0" @@
    <<"Pressure", "760.0", "bar">> :> "76000000.0" @@
    <<"Pressure", "760.0", "psi">> :> "5240015.542807954" @@
    <<"Pressure", "760.0", "atm">> :> "77007000.0" @@
    <<"Pressure", "760.0", "mmwc">> :> "7486.7001625535695" @@
    <<"Pressure", "760.0", "torr">> :> "101325.0" @@
    <<"Pressure", "1520.0", "Pa">> :> "1520.0" @@
    <<"Pressure", "1520.0", "MPa">> :> "1520000000.0" @@
    <<"Pressure", "1520.0", "bar">> :> "152000000.0" @@
    <<"Pressure", "1520.0", "psi">> :> "10480031.085615909" @@
    <<"Pressure", "1520.0", "atm">> :> "154014000.0" @@
    <<"Pressure", "1520.0", "mmwc">> :> "14973.400325107139" @@
    <<"Pressure", "1520.0", "torr">> :> "202650.0" @@
    <<"Pressure", "53.2", "Pa">> :> "53.2" @@
    <<"Pressure", "53.2", "MPa">> :> "53200000.0" @@
    <<"Pressure", "53.2", "bar">> :> "5320000.0" @@
    <<"Pressure", "53.2", "psi">> :> "366801.08799655683" @@
    <<"Pressure", "53.2", "atm">> :> "5390490.0" @@
    <<"Pressure", "53.2", "mmwc">> :> "524.0690113787499" @@
    <<"Pressure", "53.2", "torr">> :> "7092.75" @@
    <<"Pressure", "7.6000000000000005", "Pa">> :> "7.6000000000000005" @@
    <<"Pressure", "7.6000000000000005", "MPa">> :> "7600000.000000001" @@
    <<"Pressure", "7.6000000000000005", "bar">> :> "760000.0" @@
    <<"Pressure", "7.6000000000000005", "psi">> :> "52400.155428079546" @@
    <<"Pressure", "7.6000000000000005", "atm">> :> "770070.0" @@
    <<"Pressure", "7.6000000000000005", "mmwc">> :> "74.86700162553569" @@
    <<"Pressure", "7.6000000000000005", "torr">> :> "1013.2500000000001" @@
    <<"Enthalpy", "1.0", "si">> :> "1.0" @@
    <<"Enthalpy", "1.0", "kJkg">> :> "1000.0" @@
    <<"Enthalpy", "1.0", "kcalkg">> :> "4184.0" @@
    <<"Enthalpy", "1.0", "Btulb">> :> "2326.0" @@
    <<"Enthalpy", "2.5", "si">> :> "2.5" @@
    <<"Enthalpy", "2.5", "kJkg">> :> "2500.0" @@
    <<"Enthalpy", "2.5", "kcalkg">> :> "10460.0" @@
    <<"Enthalpy", "2.5", "Btulb">> :> "5815.000000000001" @@
    <<"Length", "1.0", "m">> :> "1.0" @@
    <<"Length", "1.0", "mm">> :> "0.001" @@
    <<"Length", "1.0", "inch">> :> "0.0254" @@
    <<"Length", "1.0", "ft">> :> "0.30479999999999996" @@
    <<"Length", "2.5", "m">> :> "2.5" @@
    <<"Length", "2.5", "mm">> :> "0.0025" @@
    <<"Length", "2.5", "inch">> :> "0.0635" @@
    <<"Length", "2.5", "ft">> :> "0.7619999999999999" @@
    <<"Massflow", "1.0", "kgs">> :> "1.0" @@
    <<"Massflow", "1.0", "kgh">> :> "0.0002777777777777778" @@
    <<"Massflow", "1.0", "lbs">> :> "0.45359236999999997" @@
    <<"Massflow", "1.0", "lbh">> :> "0.00012599788055555553" @@
    <<"Massflow", "2.5", "kgs">> :> "2.5" @@
    <<"Massflow", "2.5", "kgh">> :> "0.0006944444444444445" @@
    <<"Massflow", "2.5", "lbs">> :> "1.133980925" @@
    <<"Massflow", "2.5", "lbh">> :> "0.0003149947013888889" @@
    <<"Massflowrate", "1.0", "default">> :> "1.0" @@
    <<"Massflowrate", "1.0", "Btu">> :> "4.882427636383051" @@
    <<"Massflowrate", "2.5", "default">> :> "2.5" @@
    <<"Massflowrate", "2.5", "Btu">> :> "12.206069090957628" @@
    <<"Energy", "1.0", "BTU">> :> "1055.05585262" @@
    <<"Energy", "1.0", "Btu">> :> "1055.05585262" @@
    <<"Energy", "1.0", "cal">> :> "4.184" @@
    <<"Energy", "1.0", "kWh">> :> "3600000.0" @@
    <<"Energy", "2.5", "BTU">> :> "2637.63963155" @@
    <<"Energy", "2.5", "Btu">> :> "2637.63963155" @@
    <<"Energy", "2.5", "cal">> :> "10.46" @@
    <<"Energy", "2.5", "kWh">> :> "9000000.0"

\* str.upper() on the codes
upper(units) ==
    CASE units = "Btu" -> "BTU" [] units = "cal" -> "CAL" [] units = "kWh" -> "KWH"
      [] units = "x" -> "X" [] OTHER -> units

Measure(class, data) == [kind |-> "value", class |-> class, data |-> data]
UnitRaise(exc) == [kind |-> exc, class |-> "", data |-> ""]
UnitNone == [kind |-> "None", class |-> "", data |-> ""]

\* a unit() whose 'atm' branch multiplies by constants.bar
unit_AtmAsBar(class, data, units) ==
    IF class = "Energy"
    THEN IF upper(units) = "BTU" \/ units \in {"cal", "kWh"}
         THEN Measure(class, UnitTable[<<class, data, units>>])
         ELSE UnitNone
    ELSE IF units \in UnitCodes[class] \ {"x"}
    THEN Measure(class, UnitTable[<<class, data, IF units = "atm" THEN "bar" ELSE units>>])
    ELSE UnitRaise("ValueError")

\* a unit() whose Energy chain ends, like the others, in raise ValueError
unit_EnergyChainRaises(class, data, units) ==
    IF class = "Energy" /\ (upper(units) = "BTU" \/ units \in {"cal", "kWh"})
    THEN Measure(class, UnitTable[<<class, data, units>>])
    ELSE IF class # "Energy" /\ units \in UnitCodes[class] \ {"x"}
    THEN Measure(class, UnitTable[<<class, data, units>>])
    ELSE UnitRaise("ValueError")

\* <class>(data).unit(units): the branches of the if / elif chain of the class;
\* the chain of Energy has no branch for 'J' and no else
unit(class, data, units) ==
    CASE class = "Temperature" ->
             IF units \in {"K", "C", "F"}
             THEN Measure(class, UnitTable[<<class, data, units>>])
             ELSE UnitRaise("ValueError")
      [] class = "Pressure" ->
             IF units \in {"Pa", "MPa", "bar", "psi", "atm", "mmwc", "torr"}
             THEN Measure(class, UnitTable[<<class, data, units>>])
             ELSE UnitRaise("ValueError")
      [] class = "Enthalpy" ->
             IF units \in {"si", "kJkg", "kcalkg", "Btulb"}
             THEN Measure(class, UnitTable[<<class, data, units>>])
             ELSE UnitRaise("ValueError")
      [] class = "Length" ->
             IF units \in {"m", "mm", "inch", "ft"}
             THEN Measure(class, UnitTable[<<class, data, units>>])
             ELSE UnitRaise("ValueError")
      [] class = "Massflow" ->
             IF units \in {"kgs", "kgh", "lbs", "lbh"}
             THEN Measure(class, UnitTable[<<class, data, units>>])
             ELSE UnitRaise("ValueError")
      [] class = "Massflowrate" ->
             IF units \in {"default", "Btu"}
             THEN Measure(class, UnitTable[<<class, data, units>>])
             ELSE UnitRaise("ValueError")
      [] class = "Energy" ->
             IF upper(units) = "BTU" \/ units = "cal" \/ units = "kWh"
             THEN Measure(class, UnitTable[<<class, data, units>>])
             ELSE UnitNone

UnitCall(class, data, units, out) ==
    [class |-> class, data |-> data, units |-> units, out |-> out]

InitUnits ==
    /\ got = [op |-> "", now |-> UnitCall("", "", "", UnitNone),
              before |-> UnitCall("", "", "", UnitNone)]
    /\ compound = None
    /\ water = NoWater
    /\ last = Call("", None, None, "", Raise(""))
    /\ reaction = << >>
    /\ threads = << >>

\* b = <class>(data).unit(units), the object made before being kept as a
CallUnit(class, data, units) ==
    /\ got' = [op |-> "unit", now |-> UnitCall(class, data, units, unit(class, data, units)),
               before |-> got.now]
    /\ UNCHANGED <<water, last, compound, reaction, threads>>

NextUnits ==
    \E class \in UnitClasses :
        \E data \in UnitData[class], units \in UnitCodes[class] :
            CallUnit(class, data, units)

SpecUnits == InitUnits /\ [][NextUnits]_vars

-----------------------------------------------------------------------------
(* Claims about the measures *)

\* x + 273.15 and 760 * k as the caller computes them, in double arithmetic
CallerKelvin ==
    "0.0" :> "273.15" @@ "25.0" :> "298.15" @@ "0.1" :> "273.25"
CallerTorr ==
    "1.0" :> "760.0" @@ "2.0" :> "1520.0" @@ "0.07" :> "53.2" @@ "0.01" :> "7.6000000000000005"

\* the last two objects are <class>(x).unit(code) and <class>(f[x]).unit(other),
\* for an x among xs
SameQuantity(class, code, other, f, xs) ==
    /\ got.now.class = class /\ got.now.units = code
    /\ got.before.class = class /\ got.before.units = other
    /\ got.now.data \in xs
    /\ got.before.data = f[got.now.data]

\* a == b on two measures: the comparison of floats
MeasuresEqual ==
    /\ got.now.out.kind = "value"
    /\ got.before.out.kind = "value"
    /\ got.now.out.data = got.before.out.data

-----------------------------------------------------------------------------
(* The region-3 density solve of Water._basic_equation3, one loop iteration *)
(* per step.  obj(x) = self.p - p(x, self.T) is the pressure residual at    *)
(* density x.                                                               *)

\* the i in 1..579 with obj(i) * obj(i + 1) < 0, from the source expression in
\* double arithmetic; obj is not 0 at any integer density of these states
ObjSignChanges ==
    <<Num(20000000, 0), Num(623, 160000000), ideal_gas_constant>> :> {3} @@
    <<Num(20000000, 0), Num(623, 160000000), ideal_gas_constant_massic_basis>> :> {} @@
    <<Num(22064000, 0), Num(623, 160000000), ideal_gas_constant>> :> {4} @@
    <<Num(22064000, 0), Num(623, 160000000), ideal_gas_constant_massic_basis>> :> {} @@
    <<Num(30000000, 0), Num(623, 160000000), ideal_gas_constant>> :> {5} @@
    <<Num(30000000, 0), Num(623, 160000000), ideal_gas_constant_massic_basis>> :> {} @@
    <<Num(30477196, 618000000), Num(623, 160000000), ideal_gas_constant>> :> {5} @@
    <<Num(30477196, 618000000), Num(623, 160000000), ideal_gas_constant_massic_basis>> :> {} @@
    <<Num(40000000, 0), Num(623, 160000000), ideal_gas_constant>> :> {7} @@
    <<Num(40000000, 0), Num(623, 160000000), ideal_gas_constant_massic_basis>> :> {} @@
    <<Num(50000000, 0), Num(623, 160000000), ideal_gas_constant>> :> {9} @@
    <<Num(50000000, 0), Num(623, 160000000), ideal_gas_constant_massic_basis>> :> {} @@
    <<Num(80000000, 0), Num(623, 160000000), ideal_gas_constant>> :> {16} @@
    <<Num(80000000, 0), Num(623, 160000000), ideal_gas_constant_massic_basis>> :> {} @@
    <<Num(100000000, 0), Num(623, 160000000), ideal_gas_constant>> :> {20} @@
    <<Num(100000000, 0), Num(623, 160000000), ideal_gas_constant_massic_basis>> :> {} @@
    <<Num(20000000, 0), Num(647, 96000000), ideal_gas_constant>> :> {3} @@
    <<Num(20000000, 0), Num(647, 96000000), ideal_gas_constant_massic_basis>> :> {132} @@
    <<Num(22064000, 0), Num(647, 96000000), ideal_gas_constant>> :> {3} @@
    <<Num(22064000, 0), Num(647, 96000000), ideal_gas_constant_massic_basis>> :> {322} @@
    <<Num(30000000, 0), Num(647, 96000000), ideal_gas_constant>> :> {5} @@
    <<Num(30000000, 0), Num(647, 96000000), ideal_gas_constant_massic_basis>> :> {562} @@
    <<Num(30477196, 618000000), Num(647, 96000000), ideal_gas_constant>> :> {5} @@
    <<Num(30477196, 618000000), Num(647, 96000000), ideal_gas_constant_massic_basis>> :> {565} @@
    <<Num(40000000, 0), Num(647, 96000000), ideal_gas_constant>> :> {7} @@
    <<Num(40000000, 0), Num(647, 96000000), ideal_gas_constant_massic_basis>> :> {} @@
    <<Num(50000000, 0), Num(647, 96000000), ideal_gas_constant>> :> {9} @@
    <<Num(50000000, 0), Num(647, 96000000), ideal_gas_constant_massic_basis>> :> {} @@
    <<Num(80000000, 0), Num(647, 96000000), ideal_gas_constant>> :> {15} @@
    <<Num(80000000, 0), Num(647, 96000000), ideal_gas_constant_massic_basis>> :> {} @@
    <<Num(100000000, 0), Num(647, 96000000), ideal_gas_constant>> :> {19} @@
    <<Num(100000000, 0), Num(647, 96000000), ideal_gas_constant_massic_basis>> :> {} @@
    <<Num(40000000, 0), Num(700, 0), ideal_gas_constant>> :> {6} @@
    <<Num(40000000, 0), Num(700, 0), ideal_gas_constant_massic_basis>> :> {383} @@
    <<Num(50000000, 0), Num(700, 0), ideal_gas_constant>> :> {8} @@
    <<Num(50000000, 0), Num(700, 0), ideal_gas_constant_massic_basis>> :> {491} @@
    <<Num(80000000, 0), Num(700, 0), ideal_gas_constant>> :> {13} @@
    <<Num(80000000, 0), Num(700, 0), ideal_gas_constant_massic_basis>> :> {} @@
    <<Num(100000000, 0), Num(700, 0), ideal_gas_constant>> :> {17} @@
    <<Num(100000000, 0), Num(700, 0), ideal_gas_constant_massic_basis>> :> {} @@
    <<Num(18000000, 0), Num(630, 0), ideal_gas_constant>> :> {3} @@
    <<Num(18000000, 0), Num(630, 0), ideal_gas_constant_massic_basis>> :> {133, 261, 544} @@
    <<Num(20000000, 0), Num(640, 0), ideal_gas_constant>> :> {3} @@
    <<Num(20000000, 0), Num(640, 0), ideal_gas_constant_massic_basis>> :> {160, 369, 466}

SignChanges(self) == ObjSignChanges[<<self.p, self.T, self.R>>]

\* a loop body without the break
scan_iteration_NoBreak(self, st) ==
    IF self.R = None
    THEN [st EXCEPT !.pc = "raised", !.a = st.i, !.b = st.i + 1,
                    !.out = [kind |-> "AttributeError", bracket |-> 0]]
    ELSE [st EXCEPT !.a = st.i, !.b = st.i + 1,
                    !.i = IF st.i < 579 THEN st.i + 1 ELSE st.i,
                    !.pc = IF st.i < 579 THEN "for" ELSE "bisect"]

\* one iteration of `for i in range(1, 580, 1)`: a = i; b = a + 1;
\* if obj(a) * obj(b) < 0: break.  obj reads self.R
scan_iteration(self, st) ==
    IF self.R = None
    THEN [st EXCEPT !.pc = "raised", !.a = st.i, !.b = st.i + 1,
                    !.out = [kind |-> "AttributeError", bracket |-> 0]]
    ELSE IF st.i \in SignChanges(self)
    THEN [st EXCEPT !.a = st.i, !.b = st.i + 1, !.pc = "bisect"]
    ELSE [st EXCEPT !.a = st.i, !.b = st.i + 1,
                    !.i = IF st.i < 579 THEN st.i + 1 ELSE st.i,
                    !.pc = IF st.i < 579 THEN "for" ELSE "bisect"]

\* scipy.optimize.bisect(obj, a, b, xtol=1e-10): raises ValueError unless obj
\* has opposite signs at a and b, else halves [a, b] (at most maxiter = 100
\* times) and returns a root inside it
bisect(self, a, b) ==
    IF a \in SignChanges(self)
    THEN [kind |-> "value", bracket |-> a]
    ELSE [kind |-> "ValueError", bracket |-> 0]

\* Water objects in region 3
ScanWaters ==
    {w \in {Water_init(k[1], k[2], mb).self :
                k \in DOMAIN ObjSignChanges, mb \in {"True", "False", "None"}} :
        is_in_region(w).region = 3}

InitScan ==
    /\ water \in ScanWaters
    /\ got = [pc |-> "for", i |-> 1, a |-> 0, b |-> 0,
              out |-> [kind |-> "", bracket |-> 0]]
    /\ last = Call("", None, None, "", Raise(""))
    /\ compound = << >>
    /\ reaction = << >>
    /\ threads = << >>

ScanIterate ==
    /\ got.pc = "for"
    /\ got' = scan_iteration(water, got)
    /\ UNCHANGED <<water, last, compound, reaction, threads>>

ScanBisect ==
    /\ got.pc = "bisect"
    /\ got' = [got EXCEPT !.pc = "done", !.out = bisect(water, got.a, got.b)]
    /\ UNCHANGED <<water, last, compound, reaction, threads>>

\* the enthalpy() call that ran the solve returns to its caller
ScanEnthalpyReturns ==
    /\ got.pc \in {"done", "raised"}
    /\ last.op = ""
    /\ last' = Call("enthalpy", None, None, "", enthalpy(water, None, None))
    /\ UNCHANGED <<water, got, compound, reaction, threads>>

NextScan ==
    \/ ScanIterate
    \/ ScanBisect
    \/ ScanEnthalpyReturns

\* a call in progress keeps running
SpecScan == InitScan /\ [][NextScan]_vars /\ WF_vars(NextScan)

\* C25: the region-3 density solve always ends; it visits the brackets
\* [i, i + 1] from i = 1 upwards, stops at the first one with a strict sign
\* change of obj and bisects inside it; when none of the 579 brackets has a
\* sign change the call raises an error, and neither a density nor an
\* enthalpy is returned.
C25_DensitySolve ==
    /\ [](LET changes == IF water.R = None THEN {} ELSE SignChanges(water)
          IN  /\ got.i \in 1..579
              /\ got.pc = "for" => \A j \in 1..(got.i - 1) : j \notin changes
              /\ got.pc \in {"bisect", "done"} =>
                     /\ got.b = got.a + 1
                     /\ changes # {} =>
                            got.a \in changes /\ \A j \in changes : got.a <= j
                     /\ changes = {} => got.a = 579
              /\ got.pc = "done" =>
                     /\ got.out.kind = "value" <=> changes # {}
                     /\ got.out.kind = "value" => got.out.bracket = got.a
                     /\ changes = {} => got.out.kind = "ValueError"
              /\ last.op = "enthalpy" =>
                     /\ last.out.kind = "value" <=> got.out.kind = "value"
                     /\ last.out.kind # "value" => last.out.kind = got.out.kind
                     /\ changes = {} => last.out.kind \in Errors)
    /\ <>(last.op = "enthalpy")

\* at 18 MPa and 630 K on the massic basis obj changes sign on three brackets;
\* the solve has stopped on the first, [133, 134], and enthalpy has returned
C25_Witness ==
    /\ water.p = Num(18000000, 0) /\ water.T = Num(630, 0)
    /\ water.R = ideal_gas_constant_massic_basis
    /\ got.pc = "done" /\ got.a = 133 /\ got.out.kind = "value"
    /\ last.op = "enthalpy" /\ last.out.kind = "value"

-----------------------------------------------------------------------------
(* combustion.balance and balance_mix.  Amounts are exact fractions         *)
(* <<numerator, denominator>> in lowest terms, the denominator positive.    *)

RECURSIVE Gcd(_, _)
Gcd(a, b) == IF b = 0 THEN a ELSE Gcd(b, a % b)

Frac(n, d) ==
    LET m == IF d < 0 THEN -n ELSE n
        e == IF d < 0 THEN -d ELSE d
        g == Gcd(IF m < 0 THEN -m ELSE m, e)
    IN  <<m \div g, e \div g>>

FracAdd(x, y) == Frac(x[1] * y[2] + y[1] * x[2], x[2] * y[2])
FracMul(x, y) == Frac(x[1] * y[1], x[2] * y[2])
FracDiv(x, y) == Frac(x[1] * y[2], x[2] * y[1])

supported == {"C", "H", "N", "O"}

\* fuels as their formula and the (symbol, count) pairs of fuel.elements
Fuels ==
    { [formula |-> "H2", elements |-> << <<"H", 2>> >>],
      [formula |-> "CH4", elements |-> << <<"C", 1>>, <<"H", 4>> >>],
      [formula |-> "C3H8", elements |-> << <<"C", 3>>, <<"H", 8>> >>],
      [formula |-> "C2H6O", elements |-> << <<"C", 2>>, <<"H", 6>>, <<"O", 1>> >>],
      [formula |-> "NH3", elements |-> << <<"N", 1>>, <<"H", 3>> >>],
      [formula |-> "CH3NO2",
       elements |-> << <<"C", 1>>, <<"H", 3>>, <<"N", 1>>, <<"O", 2>> >>],
      [formula |-> "CH4S", elements |-> << <<"C", 1>>, <<"H", 4>>, <<"S", 1>> >>] }

\* equivalence ratios and amounts of fuel
Phis == {Frac(1, 1), Frac(4, 5), Frac(1, 2), Frac(5, 4)}
Amounts == {Frac(1, 1), Frac(2, 1), Frac(1, 2)}

\* the atoms dictionary after the loop over fuel.elements: the count of each
\* supported element the fuel lists (the last one if listed twice), else 0
Atoms(fuel) ==
    [e \in supported |->
        LET at == {i \in DOMAIN fuel.elements : fuel.elements[i][1] = e}
        IN  IF at = {} THEN 0
            ELSE fuel.elements[CHOOSE i \in at : \A j \in at : j <= i][2]]

\* balance(fuel, am, phi); 3.76 is 94/25
balance(fuel, am, phi) ==
    LET lamb == FracDiv(Frac(1, 1), phi)
        atoms == Atoms(fuel)
        k == FracMul(lamb, FracAdd(FracAdd(Frac(atoms["C"], 1), Frac(atoms["H"], 4)),
                                   Frac(atoms["O"], 2)))
    IN  [reactants |->
            [fuel |-> am,
             N2 |-> FracMul(FracMul(am, Frac(94, 25)), k),
             O2 |-> FracMul(am, k)],
         products |->
            [N2 |-> FracMul(am, FracAdd(Frac(atoms["N"], 1), FracMul(Frac(94, 25), k))),
             CO2 |-> FracMul(am, Frac(atoms["C"], 1)),
             H2O |-> FracMul(am, Frac(atoms["H"], 2)),
             O2 |-> FracMul(am, FracMul(FracAdd(lamb, Frac(-1, 1)), FracDiv(k, lamb)))]]

\* balance_mix(fuels, phi): fuels iterates as (fuel, amount) pairs
RECURSIVE balance_mix(_, _)
balance_mix(fuels, phi) ==
    IF fuels = << >>
    THEN [reactants |-> [N2 |-> Frac(0, 1), O2 |-> Frac(0, 1)],
          products |-> [N2 |-> Frac(0, 1), CO2 |-> Frac(0, 1), H2O |-> Frac(0, 1),
                        O2 |-> Frac(0, 1)]]
    ELSE LET n == Len(fuels)
             acc == balance_mix(SubSeq(fuels, 1, n - 1), phi)
             d == balance(fuels[n][1], fuels[n][2], phi)
         IN  [reactants |-> [N2 |-> FracAdd(acc.reactants.N2, d.reactants.N2),
                             O2 |-> FracAdd(acc.reactants.O2, d.reactants.O2)],
              products |-> [N2 |-> FracAdd(acc.products.N2, d.products.N2),
                            CO2 |-> FracAdd(acc.products.CO2, d.products.CO2),
                            H2O |-> FracAdd(acc.products.H2O, d.products.H2O),
                            O2 |-> FracAdd(acc.products.O2, d.products.O2)]]

InitCombustion ==
    /\ got = [op |-> "", fuels |-> << >>, phi |-> Frac(1, 1),
              out |-> balance_mix(<< >>, Frac(1, 1))]
    /\ compound = << >>
    /\ water = NoWater
    /\ last = Call("", None, None, "", Raise(""))
    /\ reaction = << >>
    /\ threads = << >>

CallBalance(fuel, am, phi) ==
    /\ got' = [op |-> "balance", fuels |-> << <<fuel, am>> >>, phi |-> phi,
               out |-> balance(fuel, am, phi)]
    /\ UNCHANGED <<water, last, compound, reaction, threads>>

CallBalanceMix(fuels, phi) ==
    /\ got' = [op |-> "balance_mix", fuels |-> fuels, phi |-> phi,
               out |-> balance_mix(fuels, phi)]
    /\ UNCHANGED <<water, last, compound, reaction, threads>>

NextCombustion ==
    \/ \E fuel \in Fuels, am \in Amounts, phi \in Phis : CallBalance(fuel, am, phi)
    \/ \E f1 \in Fuels, f2 \in Fuels, phi \in Phis :
           CallBalanceMix(<< <<f1, Frac(1, 2)>>, <<f2, Frac(1, 2)>> >>, phi)

SpecCombustion == InitCombustion /\ [][NextCombustion]_vars

\* atoms of element e on the reactant side: the fuels' own plus O2 and N2
ReactantAtoms(e, fuels, reactants) ==
    LET own == [i \in DOMAIN fuels |-> FracMul(fuels[i][2], Frac(Atoms(fuels[i][1])[e], 1))]
        fuel == IF Len(fuels) = 1 THEN own[1] ELSE FracAdd(own[1], own[2])
    IN  CASE e = "O" -> FracAdd(fuel, FracMul(Frac(2, 1), reactants.O2))
          [] e = "N" -> FracAdd(fuel, FracMul(Frac(2, 1), reactants.N2))
          [] OTHER -> fuel

\* atoms of element e in N2, CO2, H2O and O2
ProductAtoms(e, products) ==
    CASE e = "C" -> products.CO2
      [] e = "H" -> FracMul(Frac(2, 1), products.H2O)
      [] e = "N" -> FracMul(Frac(2, 1), products.N2)
      [] OTHER -> FracAdd(FracAdd(FracMul(Frac(2, 1), products.CO2), products.H2O),
                          FracMul(Frac(2, 1), products.O2))

\* C26 as claimed: for every fuel and every 0 < phi <= 1 the amounts balance
\* returns are non-negative and carry as many C, H, O and N atoms in the
\* products as there are in the reactants.
C26_AtomsBalance ==
    (got.op = "balance" /\ got.phi[1] <= got.phi[2]) =>
        /\ \A e \in supported :
               ReactantAtoms(e, got.fuels, got.out.reactants)
                   = ProductAtoms(e, got.out.products)
        /\ \A m \in {"N2", "O2"} : got.out.reactants[m][1] >= 0
        /\ \A m \in {"N2", "CO2", "H2O", "O2"} : got.out.products[m][1] >= 0

\* what holds of balance: C and H balance and no amount is negative for every
\* fuel; O balances exactly for the fuels without oxygen, N for those without
\* nitrogen
C26_BalanceOfHydrocarbons ==
    (got.op = "balance" /\ got.phi[1] <= got.phi[2]) =>
        LET atoms == Atoms(got.fuels[1][1])
            Balanced(e) == ReactantAtoms(e, got.fuels, got.out.reactants)
                               = ProductAtoms(e, got.out.products)
        IN  /\ Balanced("C") /\ Balanced("H")
            /\ Balanced("O") <=> atoms["O"] = 0
            /\ Balanced("N") <=> atoms["N"] = 0
            /\ \A m \in {"N2", "O2"} : got.out.reactants[m][1] >= 0
            /\ \A m \in {"N2", "CO2", "H2O", "O2"} : got.out.products[m][1] >= 0

=============================================================================
